---- MODULE Spec2Model ----
(***************************************************************************)
(* Model of the meetings-booking service: BookingService.createBooking     *)
(* and cancelException on top of BookingRepository (TypeORM / PostgreSQL)  *)
(* with the no_overlapping_bookings exclusion constraint, and the          *)
(* RecurrenceService expansion of RRULE strings.                           *)
(*                                                                         *)
(* Time is an integer number of ticks; an hour is TicksPerHour ticks, so   *)
(* instants that are not on the hour are representable.  Calendar days are *)
(* taken in UTC and every year has 365 days.                               *)
(***************************************************************************)
EXTENDS Integers, Sequences, FiniteSets, TLC

VARIABLES
    series,        \* committed rows of booking_series
    instances,     \* committed rows of booking_instance
    now,           \* the clock read by new Date() / Date.now()
    pc,            \* per request: position in createBooking
    dto,           \* per request: the CreateBookingDto being handled
    txSeries,      \* per request: series rows written in the open transaction
    txInstances,   \* per request: instance rows written in the open transaction
    error,         \* per request: the error thrown by createBookingSeries
    result,        \* per request: what createBooking returned or threw
    inFlightWith,  \* per request: requests whose handling overlapped in time
    cancels,       \* number of cancelException calls so far
    cancelResult,  \* the last cancelException call: arguments, and what it
                   \* returned or threw
    rruleCall,     \* the last RecurrenceService call: arguments and result
    availability,  \* the last getAvailability call: arguments and response
    query          \* the last findConflicts / findNextAvailableSlots call:
                   \* arguments and result

vars == << series, instances, now, pc, dto, txSeries, txInstances, error,
           result, inFlightWith, cancels, cancelResult, rruleCall, availability,
           query >>

(***************************************************************************)
(* Bounds of the model.                                                    *)
(***************************************************************************)
MaxReq == 2
MaxNow == 1
MaxCancel == 1
MaxStart == 1
MaxLen == 2
TicksPerHour == 2
MaxCount == 3
MaxUntilDays == 70
MaxRepeat == 2

(***************************************************************************)
(* Calendar and program constants.                                         *)
(***************************************************************************)
HoursPerDay == 24
DaysPerWeek == 7
DaysPerYear == 365
HorizonYears == 2
PaddingDays == 7
SearchDays == 90
SuggestedSlots == 5

Hour == TicksPerHour
Day == HoursPerDay * Hour
Week == DaysPerWeek * Day
Year == DaysPerYear * Day

NONE == 0 - 1

Min(a, b) == IF a < b THEN a ELSE b
Max(a, b) == IF a < b THEN b ELSE a

Requests == 1 .. MaxReq
Resources == {"R1", "R2"}

(***************************************************************************)
(* Recurrence rules.  A rule string is modelled by the parameters that     *)
(* parseRRuleParams extracts from it: present is FALSE for an absent or    *)
(* empty string, freq is "" when the string has no FREQ part, and          *)
(* interval, count and until are NONE when the part is absent.  NaN is     *)
(* what parseInt returns for a text that is not a number.  like holds      *)
(* those of the words COUNT and UNTIL that the text of the rule contains   *)
(* as written, which is what a LIKE pattern of the store matches.          *)
(***************************************************************************)
NaN == 0 - 2

NoRule ==
    [present |-> FALSE, freq |-> "", interval |-> NONE, count |-> NONE, until |-> NONE,
     like |-> {}]

\* A rule written with its keys in upper case.
Rule(f, i, c, u) ==
    [present |-> TRUE, freq |-> f, interval |-> i, count |-> c, until |-> u,
     like |-> (IF c # NONE THEN {"COUNT"} ELSE {}) \cup (IF u # NONE THEN {"UNTIL"} ELSE {})]

\* The same rule written in lower case, as in freq=daily;count=2.
InLowerCase(rule) == [rule EXCEPT !.like = {}]

\* String.prototype.toUpperCase on the keys and words that occur in rule
\* strings.
toUpperCase(str) ==
    CASE str \in {"freq", "Freq"} -> "FREQ"
      [] str \in {"count", "Count"} -> "COUNT"
      [] str = "interval" -> "INTERVAL"
      [] str = "until" -> "UNTIL"
      [] str = "daily" -> "DAILY"
      [] str = "weekly" -> "WEEKLY"
      [] OTHER -> str

mapFrequency(freq) ==
    LET upperFreq == toUpperCase(freq)
    IN  IF upperFreq \in {"DAILY", "WEEKLY", "MONTHLY", "YEARLY"}
        THEN [ok |-> TRUE, freq |-> upperFreq]
        ELSE [ok |-> FALSE, freq |-> freq]

parseRRuleParams(rule) ==
    IF rule.freq = "" THEN [ok |-> FALSE, params |-> rule]
    ELSE [ok |-> mapFrequency(rule.freq).ok,
          params |-> [rule EXCEPT !.freq = mapFrequency(rule.freq).freq]]

(***************************************************************************)
(* The rule string itself: the sequence of its KEY=VALUE parts, in the     *)
(* order of the text.  A value is a word (word # "") or a number or        *)
(* instant written in digits (num).                                        *)
(***************************************************************************)
Part(key, word, num) == [key |-> key, word |-> word, num |-> num]

\* parseInt(value, 10).
parseInt(part) == IF part.word = "" THEN part.num ELSE NaN

\* The loop of parseRRuleParams over the parts of the string: the last part
\* of a key wins, parts with other keys are skipped.
RECURSIVE readParts(_, _, _)
readParts(parts, k, params) ==
    IF k > Len(parts) THEN params
    ELSE LET part == parts[k]
             upperKey == toUpperCase(part.key)
             read ==
                 CASE upperKey = "FREQ" -> [params EXCEPT !.freq = part.word]
                   [] upperKey = "COUNT" -> [params EXCEPT !.count = parseInt(part)]
                   [] upperKey = "INTERVAL" -> [params EXCEPT !.interval = parseInt(part)]
                   [] upperKey = "UNTIL" -> [params EXCEPT !.until = part.num]
                   [] OTHER -> params
         IN  readParts(parts, k + 1,
                 [read EXCEPT !.like = @ \cup ({part.key} \cap {"COUNT", "UNTIL"})])

splitRRule(parts) == readParts(parts, 1, Rule("", NONE, NONE, NONE))

(***************************************************************************)
(* The calendar of the rrule library.  DAILY, WEEKLY and YEARLY rules step *)
(* by a fixed length; a MONTHLY rule keeps the day of the month and skips  *)
(* the months that do not have it.                                         *)
(***************************************************************************)
MonthsPerYear == 12

MonthDays == << 31, 28, 31, 30, 31, 30, 31, 31, 30, 31, 30, 31 >>

\* Days of the year before month m + 1 (m = 0 for January).
RECURSIVE DaysBeforeMonth(_)
DaysBeforeMonth(m) == IF m = 0 THEN 0 ELSE DaysBeforeMonth(m - 1) + MonthDays[m]

monthOf(dayOfYear) ==
    CHOOSE m \in 0 .. MonthsPerYear - 1 :
        DaysBeforeMonth(m) <= dayOfYear /\ dayOfYear < DaysBeforeMonth(m + 1)

\* Length of one period of the frequency, for the frequencies with a fixed
\* period.
FreqTicks(freq) ==
    CASE freq = "DAILY" -> Day
      [] freq = "WEEKLY" -> Week
      [] freq = "YEARLY" -> Year

\* The j-th period after dtstart: the instant the rule yields there, or
\* NONE when that month lacks the day.
RRuleCandidate(dtstart, freq, interval, j) ==
    IF freq # "MONTHLY" THEN dtstart + j * interval * FreqTicks(freq)
    ELSE LET day == dtstart \div Day
             dayOfYear == day % DaysPerYear
             month == monthOf(dayOfYear)
             dayOfMonth == dayOfYear - DaysBeforeMonth(month)
             m == (day \div DaysPerYear) * MonthsPerYear + month + j * interval
         IN  IF dayOfMonth < MonthDays[(m % MonthsPerYear) + 1]
             THEN ((m \div MonthsPerYear) * DaysPerYear
                      + DaysBeforeMonth(m % MonthsPerYear) + dayOfMonth) * Day
                  + (dtstart % Day)
             ELSE NONE

\* The occurrences among the first n periods from dtstart, in order.
RRulePeriods(dtstart, freq, interval, n) ==
    IF freq # "MONTHLY"
    THEN [k \in 1 .. n |-> RRuleCandidate(dtstart, freq, interval, k - 1)]
    ELSE SelectSeq([k \in 1 .. n |-> RRuleCandidate(dtstart, freq, interval, k - 1)],
                   LAMBDA o : o # NONE)

\* Number of periods that can start at or before the instant last.
PeriodsUpTo(dtstart, freq, interval, last) ==
    IF last < dtstart THEN 0
    ELSE LET shortest == IF freq = "MONTHLY" THEN 28 * Day * interval
                         ELSE FreqTicks(freq) * interval
         IN  ((last - dtstart) \div shortest) + 1

\* Variant: until is taken as an exclusive end.
RRuleAll_untilExclusive(dtstart, freq, interval, count, until) ==
    LET byCount == RRulePeriods(dtstart, freq, interval,
                                IF freq = "MONTHLY" THEN MonthsPerYear * count
                                ELSE count)
        byUntil == SelectSeq(RRulePeriods(dtstart, freq, interval,
                                          PeriodsUpTo(dtstart, freq, interval, until)),
                             LAMBDA o : o < until)
    IN  IF count # NONE /\ until # NONE
        THEN SubSeq(byUntil, 1, Min(count, Len(byUntil)))
        ELSE IF count # NONE THEN SubSeq(byCount, 1, Min(count, Len(byCount)))
        ELSE byUntil

\* new RRule(options).all(): the occurrences from dtstart on, cut by count
\* and by until (inclusive), whichever ends first; a count of 0 yields
\* nothing.
RRuleAll(dtstart, freq, interval, count, until) ==
    LET byCount == RRulePeriods(dtstart, freq, interval,
                                IF freq = "MONTHLY" THEN MonthsPerYear * count
                                ELSE count)
        byUntil == SelectSeq(RRulePeriods(dtstart, freq, interval,
                                          PeriodsUpTo(dtstart, freq, interval, until)),
                             LAMBDA o : o <= until)
    IN  IF count # NONE /\ until # NONE
        THEN SubSeq(byUntil, 1, Min(count, Len(byUntil)))
        ELSE IF count # NONE THEN SubSeq(byCount, 1, Min(count, Len(byCount)))
        ELSE byUntil

\* new RRule(options).between(after, before, true) for a rule without
\* until: occurrences o with after <= o <= before; a count of 0 yields
\* nothing.
RRuleBetween(dtstart, freq, interval, count, after, before) ==
    IF count = 0 \/ before < after THEN << >>
    ELSE IF freq # "MONTHLY" /\ after <= dtstart
    THEN RRulePeriods(dtstart, freq, interval,
                      PeriodsUpTo(dtstart, freq, interval, before))
    ELSE SelectSeq(RRulePeriods(dtstart, freq, interval,
                                PeriodsUpTo(dtstart, freq, interval, before)),
                   LAMBDA o : after <= o /\ o <= before)

\* Variant: setFullYear(getFullYear() + 1).
twoYearsFromNow_oneYear(nowv) == nowv + Year

twoYearsFromNow(nowv) == nowv + HorizonYears * Year

parseRRule(rule, startDate, nowv) ==
    LET parsed == parseRRuleParams(rule)
        params == parsed.params
        interval == IF params.interval \in {NONE, 0, NaN} THEN 1 ELSE params.interval
        noCount == params.count \in {NONE, 0, NaN}
    IN  IF ~parsed.ok THEN [ok |-> FALSE, occurrences |-> << >>]
        ELSE IF noCount /\ params.until = NONE
        THEN [ok |-> TRUE,
              occurrences |-> RRuleBetween(startDate, params.freq, interval,
                                           params.count, startDate,
                                           twoYearsFromNow(nowv))]
        ELSE [ok |-> TRUE,
              occurrences |-> RRuleAll(startDate, params.freq, interval,
                                       params.count, params.until)]

\* The test of parseRRule that sends a rule to the two-year branch:
\* !params.count && !params.until.
usesTwoYearHorizon(rule) ==
    LET params == parseRRuleParams(rule).params
    IN  params.count \in {NONE, 0, NaN} /\ params.until = NONE

\* parseRRule on the rule string.
parseRRuleString(parts, startDate, nowv) == parseRRule(splitRRule(parts), startDate, nowv)

isInfiniteRecurrence(rule) == rule.count = NONE /\ rule.until = NONE

\* Variant: the keys are compared without toUpperCase.
isInfiniteRecurrenceString_caseSensitive(parts) ==
    LET hasCount == \E k \in DOMAIN parts : parts[k].key = "COUNT"
        hasUntil == \E k \in DOMAIN parts : parts[k].key = "UNTIL"
    IN  ~hasCount /\ ~hasUntil

\* isInfiniteRecurrence on the rule string.
isInfiniteRecurrenceString(parts) ==
    LET hasCount == \E k \in DOMAIN parts : toUpperCase(parts[k].key) = "COUNT"
        hasUntil == \E k \in DOMAIN parts : toUpperCase(parts[k].key) = "UNTIL"
    IN  ~hasCount /\ ~hasUntil

Range(s) == {s[k] : k \in DOMAIN s}

(***************************************************************************)
(* Interval test and calendar day.                                         *)
(***************************************************************************)
isOverlapping(start1, end1, start2, end2) == start1 < end2 /\ start2 < end1

startOfDay(t) == (t \div Day) * Day

\* setHours(23, 59, 59, 999): the last instant of the day; at tick
\* resolution, the last tick of the day.
endOfDay(t) == startOfDay(t) + Day - 1

(***************************************************************************)
(* Rows.  A series row takes the id of the request that created it; an     *)
(* instance row is identified by its series, how it was created and a      *)
(* number.                                                                 *)
(***************************************************************************)
SeriesRow(id, d) ==
    [id |-> id, resource_id |-> d.resource_id, start_time |-> d.start_time,
     end_time |-> d.end_time, recurrence_rule |-> d.recurrence_rule]

InstanceRow(id, seriesId, resourceId, startTime, endTime, isException) ==
    [id |-> id, series_id |-> seriesId, resource_id |-> resourceId,
     start_time |-> startTime, end_time |-> endTime, is_exception |-> isException]

(***************************************************************************)
(* The storage constraint no_overlapping_bookings: EXCLUDE USING GIST      *)
(* (resource_id WITH =, tstzrange(start_time, end_time, '[]') WITH &&)     *)
(* WHERE (is_exception = FALSE).  The ranges are closed at both ends.      *)
(***************************************************************************)
\* Variant: a unique index on (resource_id, start_time) in place of the range
\* exclusion.
no_overlapping_bookings_uniqueStart(a, b) ==
    /\ ~a.is_exception
    /\ ~b.is_exception
    /\ a.resource_id = b.resource_id
    /\ a.start_time = b.start_time

no_overlapping_bookings(a, b) ==
    /\ ~a.is_exception
    /\ ~b.is_exception
    /\ a.resource_id = b.resource_id
    /\ a.start_time <= b.end_time
    /\ b.start_time <= a.end_time

\* Variant: the constraint compares rows of every resource.
ExclusionViolation_anyResource(rows, committed) ==
    \E a \in rows : \E b \in committed \cup rows :
        /\ a # b
        /\ ~a.is_exception
        /\ ~b.is_exception
        /\ a.start_time <= b.end_time
        /\ b.start_time <= a.end_time

\* Inserting rows violates the constraint when a new row conflicts with a
\* committed row or with another row of the same statement.
ExclusionViolation(rows, committed) ==
    \E a \in rows : \E b \in committed \cup rows :
        a # b /\ no_overlapping_bookings(a, b)

\* An insert that conflicts with a row another open transaction has written
\* waits until that transaction ends.
WaitsForOther(r, rows) ==
    \E r2 \in Requests \ {r} : \E a \in rows : \E b \in txInstances[r2] :
        no_overlapping_bookings(a, b)

(***************************************************************************)
(* Queries of BookingRepository over the committed rows.                   *)
(***************************************************************************)
\* Variant: no occurrence is taken as cancelled.
isInstanceException_never(seriesId, instanceStartTime) == FALSE

\* Variant: the exception is looked up at the start of the day only.
isInstanceException_startOfDayOnly(seriesId, instanceStartTime) ==
    \E i \in instances :
        /\ i.series_id = seriesId
        /\ i.is_exception
        /\ i.start_time = startOfDay(instanceStartTime)

isInstanceException(seriesId, instanceStartTime) ==
    \E i \in instances :
        /\ i.series_id = seriesId
        /\ i.is_exception
        /\ startOfDay(instanceStartTime) <= i.start_time
        /\ i.start_time <= endOfDay(instanceStartTime)

generateRecurringInstances(s, startDate, endDate) ==
    IF ~s.recurrence_rule.present
    THEN IF s.start_time >= startDate /\ s.start_time < endDate
         THEN {[start |-> s.start_time, end |-> s.end_time]}
         ELSE {}
    ELSE LET duration == s.end_time - s.start_time
             occurrences == parseRRule(s.recurrence_rule, s.start_time, now).occurrences
         IN  {[start |-> o, end |-> o + duration] :
                  o \in {x \in Range(occurrences) : x >= startDate /\ x < endDate}}

\* The series the store filter selects as unbounded: recurrence_rule IS NOT
\* NULL and the text contains neither COUNT nor UNTIL.
infiniteSeries(resourceId) ==
    {s \in series : /\ s.resource_id = resourceId
                    /\ s.recurrence_rule.present
                    /\ "COUNT" \notin s.recurrence_rule.like
                    /\ "UNTIL" \notin s.recurrence_rule.like}

ConflictInfo(id, startTime, endTime, seriesId) ==
    [id |-> id, start_time |-> startTime, end_time |-> endTime, series_id |-> seriesId]

findConflictsForTimeRange(resourceId, startTime, endTime) ==
    LET instanceConflicts ==
            {i \in instances : /\ i.resource_id = resourceId
                               /\ i.is_exception = FALSE
                               /\ i.start_time < endTime
                               /\ i.end_time > startTime}
        extendedStart == startTime - PaddingDays * Day
        extendedEnd == endTime + PaddingDays * Day
    IN  {ConflictInfo(i.id, i.start_time, i.end_time, i.series_id) : i \in instanceConflicts}
        \cup
        UNION {{ConflictInfo(<<s.id>>, g.start, g.end, s.id) :
                  g \in {x \in generateRecurringInstances(s, extendedStart, extendedEnd) :
                            /\ ~isInstanceException(s.id, x.start)
                            /\ isOverlapping(x.start, x.end, startTime, endTime)}} :
               s \in infiniteSeries(resourceId)}

findConflicts(resourceId, startTime, endTime, recurrenceRule) ==
    IF recurrenceRule.present
    THEN LET duration == endTime - startTime
             occurrences == parseRRule(recurrenceRule, startTime, now).occurrences
         IN  UNION {findConflictsForTimeRange(resourceId, o, o + duration) :
                       o \in Range(occurrences)}
    ELSE findConflictsForTimeRange(resourceId, startTime, endTime)

\* The same queries with their results as the arrays the code builds, entry
\* by entry.  A query without ORDER BY returns its rows in an order the
\* store chooses: instanceOrder and seriesOrder list the rows of the two
\* tables in that order.
findConflictsForTimeRangeArray(resourceId, startTime, endTime, instanceOrder, seriesOrder) ==
    LET instanceConflicts ==
            SelectSeq(instanceOrder,
                      LAMBDA i : /\ i.resource_id = resourceId
                                 /\ i.is_exception = FALSE
                                 /\ i.start_time < endTime
                                 /\ i.end_time > startTime)
        infinite == SelectSeq(seriesOrder, LAMBDA s : s \in infiniteSeries(resourceId))
        extendedStart == startTime - PaddingDays * Day
        extendedEnd == endTime + PaddingDays * Day
        generated(s) ==
            LET duration == s.end_time - s.start_time
                occurrences == parseRRule(s.recurrence_rule, s.start_time, now).occurrences
                kept == SelectSeq(occurrences,
                            LAMBDA o : /\ o >= extendedStart /\ o < extendedEnd
                                       /\ ~isInstanceException(s.id, o)
                                       /\ isOverlapping(o, o + duration, startTime, endTime))
            IN  [j \in DOMAIN kept |-> ConflictInfo(<<s.id>>, kept[j], kept[j] + duration, s.id)]
        pushed[k \in 0 .. Len(infinite)] ==
            IF k = 0
            THEN [j \in DOMAIN instanceConflicts |->
                     ConflictInfo(instanceConflicts[j].id, instanceConflicts[j].start_time,
                                  instanceConflicts[j].end_time,
                                  instanceConflicts[j].series_id)]
            ELSE pushed[k - 1] \o generated(infinite[k])
    IN  pushed[Len(infinite)]

\* The key of the Map that findConflicts builds: id, start and end joined by
\* "-".  Ids are UUIDs and the instants are written in digits, so two keys
\* are equal exactly when the three parts are.
conflictKey(c) == << c.id, c.start_time, c.end_time >>

\* Array.from(new Map(entries).values()): one entry per key, at the place
\* of the key's first entry, with the value of its last entry.
uniqueConflicts(conflicts) ==
    LET first(k) == \A j \in 1 .. k - 1 : conflictKey(conflicts[j]) # conflictKey(conflicts[k])
        kept == {k \in DOMAIN conflicts : first(k)}
        place(k) == Cardinality({j \in kept : j <= k})
        last(k) == CHOOSE j \in DOMAIN conflicts :
                      /\ conflictKey(conflicts[j]) = conflictKey(conflicts[k])
                      /\ \A i \in j + 1 .. Len(conflicts) :
                             conflictKey(conflicts[i]) # conflictKey(conflicts[k])
    IN  [n \in 1 .. Cardinality(kept) |->
            conflicts[last(CHOOSE k \in kept : place(k) = n)]]

\* Variant: only the window of the request itself is checked.
findConflictsArray_templateOnly(resourceId, startTime, endTime, recurrenceRule, instanceOrder, seriesOrder) ==
    [ok |-> ~recurrenceRule.present \/ parseRRule(recurrenceRule, startTime, now).ok,
     conflicts |-> uniqueConflicts(
         findConflictsForTimeRangeArray(resourceId, startTime, endTime,
                                        instanceOrder, seriesOrder))]

\* findConflicts: ok is FALSE when parseRRule throws.
findConflictsArray(resourceId, startTime, endTime, recurrenceRule, instanceOrder, seriesOrder) ==
    IF recurrenceRule.present
    THEN LET duration == endTime - startTime
             parsed == parseRRule(recurrenceRule, startTime, now)
             occurrences == parsed.occurrences
             pushed[k \in 0 .. Len(occurrences)] ==
                 IF k = 0 THEN << >>
                 ELSE pushed[k - 1] \o
                      findConflictsForTimeRangeArray(resourceId, occurrences[k],
                                                     occurrences[k] + duration,
                                                     instanceOrder, seriesOrder)
         IN  IF parsed.ok
             THEN [ok |-> TRUE, conflicts |-> uniqueConflicts(pushed[Len(occurrences)])]
             ELSE [ok |-> FALSE, conflicts |-> << >>]
    ELSE [ok |-> TRUE,
          conflicts |-> uniqueConflicts(
              findConflictsForTimeRangeArray(resourceId, startTime, endTime,
                                             instanceOrder, seriesOrder))]

\* Variant: the conflict check of the loop is ignored.
RecurringSlots_keepsConflicting(resourceId, occurrences, duration, maxSlots) ==
    LET found == IF maxSlots <= 0 THEN 0 ELSE Min(maxSlots, Len(occurrences))
    IN  [k \in 1 .. found |-> [start |-> occurrences[k], end |-> occurrences[k] + duration]]

\* Variant: the loop has lost its break.
RecurringSlots_noBreak(resourceId, occurrences, duration, maxSlots) ==
    LET free == SelectSeq(occurrences,
                    LAMBDA o : findConflictsForTimeRange(resourceId, o, o + duration) = {})
    IN  [k \in 1 .. Len(free) |-> [start |-> free[k], end |-> free[k] + duration]]

\* The loop over the occurrences of the rule: every occurrence whose window
\* has no conflict is pushed until maxSlots slots are found, so the result
\* is the first maxSlots conflict-free occurrences.
RecurringSlots(resourceId, occurrences, duration, maxSlots) ==
    LET free == SelectSeq(occurrences,
                    LAMBDA o : findConflictsForTimeRange(resourceId, o, o + duration) = {})
        found == IF maxSlots <= 0 THEN 0 ELSE Min(maxSlots, Len(free))
    IN  [k \in 1 .. found |-> [start |-> free[k], end |-> free[k] + duration]]

\* Variant: the search gives up after the first window.
SingleSlot_firstWindowOnly(resourceId, currentTime, duration, searchEndDate, maxSlots) ==
    IF ~(currentTime < searchEndDate /\ 0 < maxSlots) THEN << >>
    ELSE IF findConflictsForTimeRange(resourceId, currentTime, currentTime + duration) = {}
    THEN << [start |-> currentTime, end |-> currentTime + duration] >>
    ELSE << >>

\* The while loop of the search without a rule: iteration k tests the
\* window at currentTime + k hours, the loop runs while that instant is
\* before searchEndDate, and it ends at the first window without conflict.
SingleSlot(resourceId, currentTime, duration, searchEndDate, maxSlots) ==
    IF ~(currentTime < searchEndDate /\ 0 < maxSlots) THEN << >>
    ELSE LET iterations == 0 .. (searchEndDate - currentTime - 1) \div Hour
             at(k) == currentTime + k * Hour
             free(k) == findConflictsForTimeRange(resourceId, at(k), at(k) + duration) = {}
         IN  IF \A k \in iterations : ~free(k) THEN << >>
             ELSE LET k == CHOOSE i \in iterations :
                               free(i) /\ \A j \in 0 .. i - 1 : ~free(j)
                  IN  << [start |-> at(k), end |-> at(k) + duration] >>

\* Variant: the search starts at the requested time, wherever the clock is.
findNextAvailableSlots_fromRequestedTime(resourceId, startTime, duration, recurrenceRule, maxSlots) ==
    LET searchEndDate == now + SearchDays * Day
        currentTime == startTime
    IN  IF recurrenceRule.present
        THEN LET parsed == parseRRule(recurrenceRule, currentTime, now)
             IN  IF parsed.ok
                 THEN RecurringSlots(resourceId, parsed.occurrences, duration, maxSlots)
                 ELSE << >>
        ELSE SingleSlot(resourceId, currentTime, duration, searchEndDate, maxSlots)

findNextAvailableSlots(resourceId, startTime, duration, recurrenceRule, maxSlots) ==
    LET searchEndDate == now + SearchDays * Day
        currentTime == Max(startTime, now)
    IN  IF recurrenceRule.present
        THEN LET parsed == parseRRule(recurrenceRule, currentTime, now)
             IN  IF parsed.ok
                 THEN RecurringSlots(resourceId, parsed.occurrences, duration, maxSlots)
                 ELSE << >>
        ELSE SingleSlot(resourceId, currentTime, duration, searchEndDate, maxSlots)

\* The orders in which a query without ORDER BY can return the rows S.
Orders(S) ==
    {f \in [1 .. Cardinality(S) -> S] : \A x \in S : \E k \in DOMAIN f : f[k] = x}

\* Array.prototype.sort by start: stable, equal starts keep their order.
RECURSIVE sortByStart(_)
sortByStart(slots) ==
    IF Len(slots) <= 1 THEN slots
    ELSE LET sorted == sortByStart(SubSeq(slots, 1, Len(slots) - 1))
             x == slots[Len(slots)]
             n == Cardinality({k \in DOMAIN sorted : sorted[k].start <= x.start})
         IN  SubSeq(sorted, 1, n) \o << x >> \o SubSeq(sorted, n + 1, Len(sorted))

\* The values of a Map keyed by "start-end": one slot per key, at the place
\* of the key's first slot.
uniqueSlots(slots) ==
    LET first(k) == \A j \in 1 .. k - 1 : slots[j] # slots[k]
        kept == {k \in DOMAIN slots : first(k)}
        place(k) == Cardinality({j \in kept : j <= k})
    IN  [n \in 1 .. Cardinality(kept) |-> slots[CHOOSE k \in kept : place(k) = n]]

\* The occurrences of the series in order that findBookedSlots pushes.
RECURSIVE generatedSlots(_, _, _, _)
generatedSlots(order, k, startDate, endDate) ==
    IF k > Len(order) THEN << >>
    ELSE LET s == order[k]
             duration == s.end_time - s.start_time
             occurrences ==
                 IF ~s.recurrence_rule.present
                 THEN << s.start_time >>
                 ELSE parseRRule(s.recurrence_rule, s.start_time, now).occurrences
             inRange == SelectSeq(occurrences,
                                  LAMBDA o : /\ o >= startDate /\ o < endDate
                                             /\ ~isInstanceException(s.id, o))
         IN  [j \in DOMAIN inRange |-> [start |-> inRange[j], end |-> inRange[j] + duration]]
             \o generatedSlots(order, k + 1, startDate, endDate)

\* findBookedSlots, with the series query returning its rows in order
\* seriesOrder.
findBookedSlots(resourceId, startDate, endDate, seriesOrder) ==
    LET rows == {i \in instances : /\ i.resource_id = resourceId
                                   /\ i.is_exception = FALSE
                                   /\ i.start_time < endDate
                                   /\ i.end_time > startDate}
        fetched == CHOOSE f \in Orders(rows) : TRUE
        bookedSlots == sortByStart([k \in DOMAIN fetched |->
                                       [start |-> fetched[k].start_time,
                                        end |-> fetched[k].end_time]])
    IN  uniqueSlots(sortByStart(bookedSlots
                                \o generatedSlots(seriesOrder, 1, startDate, endDate)))

(***************************************************************************)
(* Requests a caller can send.                                             *)
(***************************************************************************)
Rules ==
    { NoRule,
      Rule("DAILY", NONE, NONE, NONE),
      Rule("WEEKLY", NONE, 2, NONE),
      Rule("DAILY", NONE, 0, NONE),
      Rule("DAILY", 1, NONE, Day),
      Rule("DAILY", NONE, NONE, 0),
      Rule("HOURLY", NONE, NONE, NONE) }

Inputs ==
    { [resource_id |-> res, start_time |-> st, end_time |-> st + len,
       recurrence_rule |-> rule] :
          res \in Resources, st \in 0 .. MaxStart, len \in 0 .. MaxLen, rule \in Rules }

InstanceDates == {0, Day + 3}

\* The ranges a caller asks availability for.
QueryRanges == {<< 0, 4 >>, << 1, 4 >>, << 0, Day + 4 >>, << 1, 1 >>, << 4, 0 >>}

NoInstance == InstanceRow(<< >>, 0, "", 0, 0, FALSE)

NoCancel == [seriesId |-> 0, instanceDate |-> 0, kind |-> "none", instance |-> NoInstance]

NoCall == [fn |-> "none", rruleString |-> << >>, startDate |-> 0, calledAt |-> 0,
           result |-> [ok |-> TRUE, occurrences |-> << >>, infinite |-> FALSE]]

NoAvailability == [resource_id |-> "", start_date |-> 0, end_date |-> 0,
                   kind |-> "none", available_slots |-> << >>]

QueryCall(fn, resourceId, startTime, endTime, recurrenceRule, maxSlots, calledAt, ok, conflicts, slots) ==
    [fn |-> fn, resource_id |-> resourceId, start_time |-> startTime,
     end_time |-> endTime, recurrence_rule |-> recurrenceRule, maxSlots |-> maxSlots,
     calledAt |-> calledAt, ok |-> ok, conflicts |-> conflicts, slots |-> slots]

NoQuery == QueryCall("none", "", 0, 0, NoRule, 0, 0, TRUE, << >>, << >>)

NoDto == [resource_id |-> "", start_time |-> 0, end_time |-> 0, recurrence_rule |-> NoRule]

NoResult == [kind |-> "none", conflicts |-> {}, next_available_slots |-> << >>, count |-> 0]

InFlight(r) == pc[r] \in {"validated", "seriesSaved", "saved", "failed"}

Init ==
    /\ series = {}
    /\ instances = {}
    /\ now = 0
    /\ pc = [r \in Requests |-> "idle"]
    /\ dto = [r \in Requests |-> NoDto]
    /\ txSeries = [r \in Requests |-> {}]
    /\ txInstances = [r \in Requests |-> {}]
    /\ error = [r \in Requests |-> ""]
    /\ result = [r \in Requests |-> NoResult]
    /\ inFlightWith = [r \in Requests |-> {}]
    /\ cancels = 0
    /\ cancelResult = NoCancel
    /\ rruleCall = NoCall
    /\ availability = NoAvailability
    /\ query = NoQuery

(***************************************************************************)
(* BookingService.createBooking, validation part: the checks made before   *)
(* createBookingSeries is called.                                          *)
(***************************************************************************)
\* Variant: the range check written with > in place of >=.
ValidationError_emptyRangeAllowed(d, nowv) ==
    IF d.start_time > d.end_time THEN "start_time must be before end_time"
    ELSE IF d.start_time < nowv THEN "Cannot book meetings in the past"
    ELSE IF d.recurrence_rule.present
    THEN LET parsed == parseRRule(d.recurrence_rule, d.start_time, nowv)
         IN  IF ~parsed.ok THEN "Invalid recurrence rule"
             ELSE IF Len(parsed.occurrences) = 0 THEN "RRULE generated no occurrences"
             ELSE ""
    ELSE ""

ValidationError(d, nowv) ==
    IF d.start_time >= d.end_time THEN "start_time must be before end_time"
    ELSE IF d.start_time < nowv THEN "Cannot book meetings in the past"
    ELSE IF d.recurrence_rule.present
    THEN LET parsed == parseRRule(d.recurrence_rule, d.start_time, nowv)
         IN  IF ~parsed.ok THEN "Invalid recurrence rule"
             ELSE IF Len(parsed.occurrences) = 0 THEN "RRULE generated no occurrences"
             ELSE ""
    ELSE ""

\* The validation of a request drawn from inputs.
ValidateFrom(r, inputs) ==
    /\ pc[r] = "idle"
    /\ IF r = 1 THEN TRUE ELSE pc[r - 1] # "idle"
    /\ \E d \in inputs :
        /\ dto' = [dto EXCEPT ![r] = d]
        /\ IF ValidationError(d, now) # ""
           THEN /\ pc' = [pc EXCEPT ![r] = "done"]
                /\ result' = [result EXCEPT ![r] = [NoResult EXCEPT !.kind = "rejected"]]
                /\ inFlightWith' = inFlightWith
           ELSE /\ pc' = [pc EXCEPT ![r] = "validated"]
                /\ result' = result
                /\ inFlightWith' =
                       [q \in Requests |->
                           IF q = r THEN {x \in Requests \ {r} : InFlight(x)}
                           ELSE IF InFlight(q) THEN inFlightWith[q] \cup {r}
                           ELSE inFlightWith[q]]
    /\ UNCHANGED << series, instances, now, txSeries, txInstances, error, cancels,
                    cancelResult, rruleCall, availability, query >>

Validate(r) == ValidateFrom(r, Inputs)

(***************************************************************************)
(* BookingRepository.createBookingSeries.                                  *)
(***************************************************************************)
\* Variant: every occurrence is given the end of the template window.
NewInstances_templateEnd(r, d) ==
    IF d.recurrence_rule.present /\ ~isInfiniteRecurrence(d.recurrence_rule)
    THEN LET occurrences == parseRRule(d.recurrence_rule, d.start_time, now).occurrences
         IN  {InstanceRow(<<r, "occ", k>>, r, d.resource_id, occurrences[k],
                          d.end_time, FALSE) : k \in DOMAIN occurrences}
    ELSE IF ~d.recurrence_rule.present
    THEN {InstanceRow(<<r, "occ", 1>>, r, d.resource_id, d.start_time, d.end_time, FALSE)}
    ELSE {}

\* The instance rows createBookingSeries builds for a request.
NewInstances(r, d) ==
    IF d.recurrence_rule.present /\ ~isInfiniteRecurrence(d.recurrence_rule)
    THEN LET duration == d.end_time - d.start_time
             occurrences == parseRRule(d.recurrence_rule, d.start_time, now).occurrences
         IN  {InstanceRow(<<r, "occ", k>>, r, d.resource_id, occurrences[k],
                          occurrences[k] + duration, FALSE) : k \in DOMAIN occurrences}
    ELSE IF ~d.recurrence_rule.present
    THEN {InstanceRow(<<r, "occ", 1>>, r, d.resource_id, d.start_time, d.end_time, FALSE)}
    ELSE {}

\* startTransaction and the save of the series row.
SaveSeries(r) ==
    /\ pc[r] = "validated"
    /\ txSeries' = [txSeries EXCEPT ![r] = {SeriesRow(r, dto[r])}]
    /\ pc' = [pc EXCEPT ![r] = "seriesSaved"]
    /\ UNCHANGED << series, instances, now, dto, txInstances, error, result,
                    inFlightWith, cancels,
                    cancelResult, rruleCall, availability, query >>

\* The save of the instance rows (none for an unbounded rule).
SaveInstances(r) ==
    /\ pc[r] = "seriesSaved"
    /\ LET rows == NewInstances(r, dto[r])
       IN  /\ ~WaitsForOther(r, rows)
           /\ IF ExclusionViolation(rows, instances)
              THEN /\ error' = [error EXCEPT ![r] = "QueryFailedError 23P01"]
                   /\ pc' = [pc EXCEPT ![r] = "failed"]
                   /\ txInstances' = txInstances
              ELSE /\ txInstances' = [txInstances EXCEPT ![r] = rows]
                   /\ pc' = [pc EXCEPT ![r] = "saved"]
                   /\ error' = error
    /\ UNCHANGED << series, instances, now, dto, txSeries, result, inFlightWith, cancels,
                    cancelResult, rruleCall, availability, query >>

\* What the store holds once a transaction is committed / rolled back.
Committed(store, written) == store \cup written

\* Variant: the writes of a failed transaction are kept.
RolledBack_keepsWrites(store, written) == store \cup written

RolledBack(store, written) == store

\* commitTransaction, and the success response of createBooking.
Commit(r) ==
    /\ pc[r] = "saved"
    /\ series' = Committed(series, txSeries[r])
    /\ instances' = Committed(instances, txInstances[r])
    /\ txSeries' = [txSeries EXCEPT ![r] = {}]
    /\ txInstances' = [txInstances EXCEPT ![r] = {}]
    /\ pc' = [pc EXCEPT ![r] = "done"]
    /\ result' = [result EXCEPT ![r] =
                     [NoResult EXCEPT !.kind = "success",
                                      !.count = Cardinality(txInstances[r])]]
    /\ UNCHANGED << now, dto, error, inFlightWith, cancels,
                    cancelResult, rruleCall, availability, query >>

\* The response createBooking builds in its catch block.
CatchResult(d, err) ==
    IF err = "ConflictException"
    THEN [kind |-> "conflict",
          conflicts |-> findConflicts(d.resource_id, d.start_time, d.end_time,
                                      d.recurrence_rule),
          next_available_slots |->
              findNextAvailableSlots(d.resource_id, d.start_time,
                                     d.end_time - d.start_time,
                                     d.recurrence_rule, SuggestedSlots),
          count |-> 0]
    ELSE [NoResult EXCEPT !.kind = "error"]

\* Variant: the catch block returns without rollbackTransaction and
\* release: the rows the transaction wrote stay locked.
Rollback_keepsTransaction(r) ==
    /\ pc[r] = "failed"
    /\ pc' = [pc EXCEPT ![r] = "done"]
    /\ result' = [result EXCEPT ![r] = CatchResult(dto[r], error[r])]
    /\ UNCHANGED << series, instances, txSeries, txInstances, now, dto, error,
                    inFlightWith, cancels, cancelResult, rruleCall, availability,
                    query >>

\* rollbackTransaction after a failed save, and the catch block of
\* createBooking.
Rollback(r) ==
    /\ pc[r] = "failed"
    /\ series' = RolledBack(series, txSeries[r])
    /\ instances' = RolledBack(instances, txInstances[r])
    /\ txSeries' = [txSeries EXCEPT ![r] = {}]
    /\ txInstances' = [txInstances EXCEPT ![r] = {}]
    /\ pc' = [pc EXCEPT ![r] = "done"]
    /\ result' = [result EXCEPT ![r] = CatchResult(dto[r], error[r])]
    /\ UNCHANGED << now, dto, error, inFlightWith, cancels,
                    cancelResult, rruleCall, availability, query >>

(***************************************************************************)
(* BookingRepository.cancelException, and the response or error            *)
(* BookingService.cancelException makes of it.                             *)
(***************************************************************************)
\* Variant: the lookup of the series has lost its where clause.
findOneSeries_noWhere(seriesId) == series

\* seriesRepository.findOne({ where: { id: seriesId } }): the rows it can
\* return.
findOneSeries(seriesId) == {s \in series : s.id = seriesId}

\* instanceRepository.findOne for a non-exception instance of the series
\* that starts on the calendar day of instanceDate: the rows it can return.
findOneInstance(seriesId, instanceDate) ==
    {i \in instances : /\ i.series_id = seriesId
                       /\ startOfDay(instanceDate) <= i.start_time
                       /\ i.start_time <= endOfDay(instanceDate)
                       /\ i.is_exception = FALSE}

\* Variant: the flagged instance is saved as a new row.
saveAsException_insert(store, existingInstance) ==
    store \cup {[existingInstance EXCEPT !.is_exception = TRUE,
                                         !.id = << existingInstance.series_id, "exc", 0 >>]}

\* existingInstance.is_exception = true and save: the row is updated.
saveAsException(store, existingInstance) ==
    (store \ {existingInstance}) \cup {[existingInstance EXCEPT !.is_exception = TRUE]}

\* Variant: the row built for the cancelled day ends where the template ends.
newException_templateEnd(id, s, instanceDate) ==
    LET instanceStart == startOfDay(instanceDate) + (s.start_time % Day)
    IN  InstanceRow(id, s.id, s.resource_id, instanceStart, s.end_time, TRUE)

\* Variant: the row built for the cancelled day is not flagged.
newException_notFlagged(id, s, instanceDate) ==
    LET duration == s.end_time - s.start_time
        instanceStart == startOfDay(instanceDate) + (s.start_time % Day)
    IN  InstanceRow(id, s.id, s.resource_id, instanceStart, instanceStart + duration, FALSE)

\* The exception row built for a day without stored instance: the day of
\* instanceDate at the time of day of the series, with its duration.
newException(id, s, instanceDate) ==
    LET duration == s.end_time - s.start_time
        instanceStart == startOfDay(instanceDate) + (s.start_time % Day)
    IN  InstanceRow(id, s.id, s.resource_id, instanceStart, instanceStart + duration, TRUE)

CancelOutcome(seriesId, instanceDate, kind, instance) ==
    [seriesId |-> seriesId, instanceDate |-> instanceDate, kind |-> kind,
     instance |-> instance]

\* cancelException, called while fewer than calls cancellations were made.
cancelExceptionWithin(calls, seriesId, instanceDate) ==
    /\ cancels < calls
    /\ cancels' = cancels + 1
    /\ IF findOneSeries(seriesId) = {}
       THEN /\ instances' = instances
            /\ cancelResult' = CancelOutcome(seriesId, instanceDate,
                                             "Recurring booking series not found",
                                             NoInstance)
       ELSE \E s \in findOneSeries(seriesId) :
              IF findOneInstance(seriesId, instanceDate) # {}
              THEN \E existingInstance \in findOneInstance(seriesId, instanceDate) :
                      /\ instances' = saveAsException(instances, existingInstance)
                      /\ cancelResult' =
                             CancelOutcome(seriesId, instanceDate, "cancelled",
                                           [existingInstance EXCEPT !.is_exception = TRUE])
              ELSE LET exception == newException(<< seriesId, "exc", cancels + 1 >>,
                                                 s, instanceDate)
                   IN  /\ instances' = instances \cup {exception}
                       /\ cancelResult' = CancelOutcome(seriesId, instanceDate,
                                                        "cancelled", exception)
    /\ UNCHANGED << series, now, pc, dto, txSeries, txInstances, error, result,
                    inFlightWith, rruleCall, availability, query >>

cancelException(seriesId, instanceDate) ==
    cancelExceptionWithin(MaxCancel, seriesId, instanceDate)

Cancel == \E seriesId \in 1 .. MaxReq + 1 : \E instanceDate \in InstanceDates :
              cancelException(seriesId, instanceDate)

\* Cancellations that may be repeated for the same series and day.
CancelRepeated == \E seriesId \in 1 .. MaxReq + 1 : \E instanceDate \in InstanceDates :
                      cancelExceptionWithin(MaxRepeat, seriesId, instanceDate)

(***************************************************************************)
(* BookingService.getAvailability.                                         *)
(***************************************************************************)
\* Variant: the free interval before the first booking is left out.
calculateAvailableSlots_noLeadingGap(startDate, endDate, bookedSlots) ==
    IF Len(bookedSlots) = 0
    THEN << [start_time |-> startDate, end_time |-> endDate] >>
    ELSE LET n == Len(bookedSlots)
             gaps == [i \in 1 .. n - 1 |->
                         [start_time |-> bookedSlots[i].end,
                          end_time |-> bookedSlots[i + 1].start]]
             last == IF bookedSlots[n].end < endDate
                     THEN << [start_time |-> bookedSlots[n].end, end_time |-> endDate] >>
                     ELSE << >>
         IN  SelectSeq(gaps, LAMBDA g : g.end_time > g.start_time) \o last

calculateAvailableSlots(startDate, endDate, bookedSlots) ==
    IF Len(bookedSlots) = 0
    THEN << [start_time |-> startDate, end_time |-> endDate] >>
    ELSE LET n == Len(bookedSlots)
             first == IF bookedSlots[1].start > startDate
                      THEN << [start_time |-> startDate,
                               end_time |-> bookedSlots[1].start] >>
                      ELSE << >>
             gaps == [i \in 1 .. n - 1 |->
                         [start_time |-> bookedSlots[i].end,
                          end_time |-> bookedSlots[i + 1].start]]
             last == IF bookedSlots[n].end < endDate
                     THEN << [start_time |-> bookedSlots[n].end, end_time |-> endDate] >>
                     ELSE << >>
         IN  first \o SelectSeq(gaps, LAMBDA g : g.end_time > g.start_time) \o last

AvailabilityResponse(resourceId, startDate, endDate, kind, availableSlots) ==
    [resource_id |-> resourceId, start_date |-> startDate, end_date |-> endDate,
     kind |-> kind, available_slots |-> availableSlots]

\* Variant: the range check written with > in place of >=.
getAvailability_emptyRangeAllowed(resourceId, startDate, endDate) ==
    /\ availability.kind = "none"
    /\ IF startDate > endDate
       THEN availability' = AvailabilityResponse(resourceId, startDate, endDate,
                                                 "start_date must be before end_date",
                                                 << >>)
       ELSE \E seriesOrder \in Orders(infiniteSeries(resourceId)) :
              availability' =
                  AvailabilityResponse(resourceId, startDate, endDate, "ok",
                      calculateAvailableSlots(startDate, endDate,
                          findBookedSlots(resourceId, startDate, endDate, seriesOrder)))
    /\ UNCHANGED << series, instances, now, pc, dto, txSeries, txInstances, error,
                    result, inFlightWith, cancels, cancelResult, rruleCall, query >>

getAvailability(resourceId, startDate, endDate) ==
    /\ availability.kind = "none"
    /\ IF startDate >= endDate
       THEN availability' = AvailabilityResponse(resourceId, startDate, endDate,
                                                 "start_date must be before end_date",
                                                 << >>)
       ELSE \E seriesOrder \in Orders(infiniteSeries(resourceId)) :
              availability' =
                  AvailabilityResponse(resourceId, startDate, endDate, "ok",
                      calculateAvailableSlots(startDate, endDate,
                          findBookedSlots(resourceId, startDate, endDate, seriesOrder)))
    /\ UNCHANGED << series, instances, now, pc, dto, txSeries, txInstances, error,
                    result, inFlightWith, cancels, cancelResult, rruleCall, query >>

Availability ==
    \E resourceId \in Resources : \E range \in QueryRanges :
        getAvailability(resourceId, range[1], range[2])

\* Time passes.
Tick ==
    /\ now < MaxNow
    /\ now' = now + 1
    /\ UNCHANGED << series, instances, pc, dto, txSeries, txInstances, error,
                    result, inFlightWith, cancels,
                    cancelResult, rruleCall, availability, query >>

Next ==
    \/ \E r \in Requests : Validate(r)
    \/ \E r \in Requests : SaveSeries(r)
    \/ \E r \in Requests : SaveInstances(r)
    \/ \E r \in Requests : Commit(r)
    \/ \E r \in Requests : Rollback(r)
    \/ Cancel
    \/ Tick

Spec == Init /\ [][Next]_vars

(***************************************************************************)
(* The availability query, asked of a store of committed bookings, next   *)
(* to cancellations.                                                       *)
(***************************************************************************)
\* The requests that pass validation at time 0.
ValidInputs == {d \in Inputs : ValidationError(d, 0) = ""}

\* The store after up to MaxReq creations were handled one after the other
\* at time 0 and committed: every such store is one the creation actions
\* reach.
AvailabilityInit ==
    /\ now = 0
    /\ \E d1 \in ValidInputs \cup {NoDto} : \E d2 \in ValidInputs \cup {NoDto} :
          LET made == [r \in Requests |-> IF r = 1 THEN d1 # NoDto
                                          ELSE IF r = 2 THEN d2 # NoDto ELSE FALSE]
              sent == [r \in Requests |-> IF r = 1 THEN d1
                                          ELSE IF r = 2 THEN d2 ELSE NoDto]
              rows == [r \in Requests |-> IF made[r] THEN NewInstances(r, sent[r]) ELSE {}]
          IN  /\ d2 # NoDto => d1 # NoDto
              /\ ~ExclusionViolation(rows[1], {})
              /\ ~ExclusionViolation(rows[2], rows[1])
              /\ series = {SeriesRow(r, sent[r]) : r \in {q \in Requests : made[q]}}
              /\ instances = UNION {rows[r] : r \in Requests}
              /\ pc = [r \in Requests |-> IF made[r] THEN "done" ELSE "idle"]
              /\ dto = sent
              /\ result = [r \in Requests |->
                               IF made[r]
                               THEN [NoResult EXCEPT !.kind = "success",
                                                     !.count = Cardinality(rows[r])]
                               ELSE NoResult]
    /\ txSeries = [r \in Requests |-> {}]
    /\ txInstances = [r \in Requests |-> {}]
    /\ error = [r \in Requests |-> ""]
    /\ inFlightWith = [r \in Requests |-> {}]
    /\ cancels = 0
    /\ cancelResult = NoCancel
    /\ rruleCall = NoCall
    /\ availability = NoAvailability
    /\ query = NoQuery

NextAvailability ==
    \/ Availability
    \/ Cancel
    \/ Tick

AvailabilitySpec == AvailabilityInit /\ [][NextAvailability]_vars

\* Cancellations alone, on a store of committed bookings.
NextCancellation ==
    \/ Cancel
    \/ Tick

CancellationSpec == AvailabilityInit /\ [][NextCancellation]_vars

\* Repeated cancellations, on a store of committed bookings.
NextRepeatedCancellation ==
    \/ CancelRepeated
    \/ Tick

RepeatedCancellationSpec == AvailabilityInit /\ [][NextRepeatedCancellation]_vars

(***************************************************************************)
(* RecurrenceService on its own: parseRRule and isInfiniteRecurrence       *)
(* called with rule strings and template starts, at any time.              *)
(***************************************************************************)
FreqParts ==
    { << >>,
      << Part("FREQ", "DAILY", NONE) >>,
      << Part("FREQ", "WEEKLY", NONE) >>,
      << Part("FREQ", "MONTHLY", NONE) >>,
      << Part("FREQ", "YEARLY", NONE) >>,
      << Part("freq", "weekly", NONE) >>,
      << Part("FREQ", "HOURLY", NONE) >> }

IntervalParts ==
    { << >>,
      << Part("INTERVAL", "", 1) >>,
      << Part("INTERVAL", "", 2) >>,
      << Part("interval", "", 2) >>,
      << Part("INTERVAL", "invalid", NONE) >> }

CountParts ==
    { << >>,
      << Part("COUNT", "", 0) >>,
      << Part("COUNT", "", 1) >>,
      << Part("COUNT", "", MaxCount) >>,
      << Part("count", "", 2) >> }

UntilParts ==
    { << >>,
      << Part("UNTIL", "", 0) >>,
      << Part("UNTIL", "", 2 * Week) >>,
      << Part("until", "", 2 * Week + 1) >>,
      << Part("UNTIL", "", MaxUntilDays * Day) >> }

RuleStrings ==
    {f \o i \o c \o u : f \in FreqParts, i \in IntervalParts,
                        c \in CountParts, u \in UntilParts}

\* Template starts: the first instants of the calendar, the last day of
\* January, and an instant beyond the expansion horizon.
StartDates == {0, 1, (MonthDays[1] - 1) * Day + 1, HorizonYears * Year + 2}

RecurrenceCall(fn, parts, startDate, calledAt, ok, occurrences, infinite) ==
    [fn |-> fn, rruleString |-> parts, startDate |-> startDate, calledAt |-> calledAt,
     result |-> [ok |-> ok, occurrences |-> occurrences, infinite |-> infinite]]

\* The service is handed a rule string and a template start.
RecurrenceInit ==
    /\ series = {}
    /\ instances = {}
    /\ now = 0
    /\ pc = [r \in Requests |-> "idle"]
    /\ dto = [r \in Requests |-> NoDto]
    /\ txSeries = [r \in Requests |-> {}]
    /\ txInstances = [r \in Requests |-> {}]
    /\ error = [r \in Requests |-> ""]
    /\ result = [r \in Requests |-> NoResult]
    /\ inFlightWith = [r \in Requests |-> {}]
    /\ cancels = 0
    /\ cancelResult = NoCancel
    /\ availability = NoAvailability
    /\ query = NoQuery
    /\ \E parts \in RuleStrings : \E startDate \in StartDates :
          rruleCall = RecurrenceCall("none", parts, startDate, 0, TRUE, << >>, FALSE)

ParseRRule ==
    /\ rruleCall.fn = "none"
    /\ LET parsed == parseRRuleString(rruleCall.rruleString, rruleCall.startDate, now)
       IN  rruleCall' = RecurrenceCall("parseRRule", rruleCall.rruleString,
                                       rruleCall.startDate, now, parsed.ok,
                                       parsed.occurrences, FALSE)
    /\ UNCHANGED << series, instances, now, pc, dto, txSeries, txInstances, error,
                    result, inFlightWith, cancels, cancelResult, availability, query >>

IsInfiniteRecurrence ==
    /\ rruleCall.fn = "none"
    /\ rruleCall' = RecurrenceCall("isInfiniteRecurrence", rruleCall.rruleString,
                                   rruleCall.startDate, now, TRUE, << >>,
                                   isInfiniteRecurrenceString(rruleCall.rruleString))
    /\ UNCHANGED << series, instances, now, pc, dto, txSeries, txInstances, error,
                    result, inFlightWith, cancels, cancelResult, availability, query >>

NextRecurrence ==
    \/ ParseRRule
    \/ IsInfiniteRecurrence
    \/ Tick

RecurrenceSpec == RecurrenceInit /\ [][NextRecurrence]_vars

(***************************************************************************)
(* BookingRepository.findConflicts and findNextAvailableSlots, asked of a  *)
(* store of committed bookings, next to cancellations.                     *)
(***************************************************************************)
CreateBookingDto(resourceId, startTime, endTime, recurrenceRule) ==
    [resource_id |-> resourceId, start_time |-> startTime, end_time |-> endTime,
     recurrence_rule |-> recurrenceRule]

\* The bookings the store is made of: single bookings an hour long on both
\* resources, one that outlasts the search horizon, a bounded daily series in
\* upper and in lower case, and unbounded series, one of them with
\* occurrences longer than the padding of the conflict search.
StoredInputs ==
    {d \in { CreateBookingDto("R1", 0, Hour, NoRule),
             CreateBookingDto("R1", Hour + 1, 2 * Hour + 1, NoRule),
             CreateBookingDto("R2", 0, Hour, NoRule),
             CreateBookingDto("R2", 0, (SearchDays + 1) * Day, NoRule),
             CreateBookingDto("R1", 0, Hour, Rule("DAILY", NONE, 2, NONE)),
             CreateBookingDto("R1", 0, Hour, InLowerCase(Rule("DAILY", NONE, 2, NONE))),
             CreateBookingDto("R1", 1, Hour + 1, Rule("WEEKLY", NONE, NONE, NONE)),
             CreateBookingDto("R1", 0, (PaddingDays + 1) * Day,
                              Rule("YEARLY", NONE, NONE, NONE)) } :
        ValidationError(d, 0) = ""}

\* The store after up to MaxReq of these creations were handled one after
\* the other at time 0 and committed.
QueryInit ==
    /\ now = 0
    /\ \E d1 \in StoredInputs \cup {NoDto} : \E d2 \in StoredInputs \cup {NoDto} :
          LET made == [r \in Requests |-> IF r = 1 THEN d1 # NoDto
                                          ELSE IF r = 2 THEN d2 # NoDto ELSE FALSE]
              sent == [r \in Requests |-> IF r = 1 THEN d1
                                          ELSE IF r = 2 THEN d2 ELSE NoDto]
              rows == [r \in Requests |-> IF made[r] THEN NewInstances(r, sent[r]) ELSE {}]
          IN  /\ d2 # NoDto => d1 # NoDto
              /\ ~ExclusionViolation(rows[1], {})
              /\ ~ExclusionViolation(rows[2], rows[1])
              /\ series = {SeriesRow(r, sent[r]) : r \in {q \in Requests : made[q]}}
              /\ instances = UNION {rows[r] : r \in Requests}
              /\ pc = [r \in Requests |-> IF made[r] THEN "done" ELSE "idle"]
              /\ dto = sent
              /\ result = [r \in Requests |->
                               IF made[r]
                               THEN [NoResult EXCEPT !.kind = "success",
                                                     !.count = Cardinality(rows[r])]
                               ELSE NoResult]
    /\ txSeries = [r \in Requests |-> {}]
    /\ txInstances = [r \in Requests |-> {}]
    /\ error = [r \in Requests |-> ""]
    /\ inFlightWith = [r \in Requests |-> {}]
    /\ cancels = 0
    /\ cancelResult = NoCancel
    /\ rruleCall = NoCall
    /\ availability = NoAvailability
    /\ query = NoQuery

\* The windows and rules findConflicts is asked about.
ConflictWindows ==
    { << 0, Hour >>, << Hour, Hour + 1 >>, << 1, Hour + 1 >>,
      << Day - 1, Day + 1 >>,
      << PaddingDays * Day + Hour, PaddingDays * Day + 2 * Hour >> }

ConflictRules ==
    { NoRule,
      Rule("DAILY", NONE, 2, NONE),
      Rule("DAILY", NONE, NONE, Day),
      Rule("HOURLY", NONE, NONE, NONE) }

FindConflicts ==
    /\ query.fn = "none"
    /\ \E instanceOrder \in Orders(instances) : \E seriesOrder \in Orders(series) :
       \E resourceId \in Resources : \E w \in ConflictWindows : \E rule \in ConflictRules :
          LET found == findConflictsArray(resourceId, w[1], w[2], rule,
                                          instanceOrder, seriesOrder)
          IN  query' = QueryCall("findConflicts", resourceId, w[1], w[2], rule, 0, now,
                                 found.ok, found.conflicts, << >>)
    /\ UNCHANGED << series, instances, now, pc, dto, txSeries, txInstances, error,
                    result, inFlightWith, cancels, cancelResult, rruleCall,
                    availability >>

\* The requests findNextAvailableSlots is asked about: a start at, before
\* and after the clock and beyond the search horizon, for windows of an
\* hour.
SlotStarts == {0, 1, SearchDays * Day + 1}


SlotRules ==
    { NoRule,
      Rule("WEEKLY", NONE, NONE, NONE),
      Rule("YEARLY", NONE, NONE, NONE),
      Rule("DAILY", NONE, 2, NONE),
      Rule("HOURLY", NONE, NONE, NONE) }

SlotCounts == {0, 2, SuggestedSlots}

FindNextAvailableSlots ==
    /\ query.fn = "none"
    /\ \E resourceId \in Resources : \E startTime \in SlotStarts :
       \E rule \in SlotRules : \E maxSlots \in SlotCounts :
          query' = QueryCall("findNextAvailableSlots", resourceId, startTime,
                             startTime + Hour, rule, maxSlots, now, TRUE, << >>,
                             findNextAvailableSlots(resourceId, startTime, Hour,
                                                    rule, maxSlots))
    /\ UNCHANGED << series, instances, now, pc, dto, txSeries, txInstances, error,
                    result, inFlightWith, cancels, cancelResult, rruleCall,
                    availability >>

\* The conflict query on a store in which occurrences get cancelled.
NextConflicts ==
    \/ FindConflicts
    \/ Cancel
    \/ Tick

ConflictsSpec == QueryInit /\ [][NextConflicts]_vars

\* The slot search on a store of committed bookings.
NextSlots ==
    \/ FindNextAvailableSlots
    \/ Tick

SlotsSpec == QueryInit /\ [][NextSlots]_vars

(***************************************************************************)
(* A creation on a store in which an occurrence gets cancelled: the store  *)
(* holds the committed booking of request 1 on resource R1, from instant 0, *)
(* and at most one earlier single booking on R1 (series 0); request 2 is   *)
(* still to come, and is sent after a cancellation.                        *)
(***************************************************************************)
RebookInit ==
    /\ now = 0
    /\ \E d1 \in {d \in ValidInputs : d.resource_id = "R1" /\ d.start_time = 0} :
       \E d0 \in {d \in ValidInputs : d.resource_id = "R1" /\ ~d.recurrence_rule.present}
                  \cup {NoDto} :
          LET rows0 == IF d0 = NoDto THEN {} ELSE NewInstances(0, d0)
              rows1 == NewInstances(1, d1)
          IN  /\ ~ExclusionViolation(rows0, {})
              /\ ~ExclusionViolation(rows1, rows0)
              /\ series = {SeriesRow(1, d1)}
                             \cup (IF d0 = NoDto THEN {} ELSE {SeriesRow(0, d0)})
              /\ instances = rows0 \cup rows1
              /\ dto = [r \in Requests |-> IF r = 1 THEN d1 ELSE NoDto]
              /\ result = [r \in Requests |->
                               IF r = 1
                               THEN [NoResult EXCEPT !.kind = "success",
                                                     !.count = Cardinality(rows1)]
                               ELSE NoResult]
    /\ pc = [r \in Requests |-> IF r = 1 THEN "done" ELSE "idle"]
    /\ txSeries = [r \in Requests |-> {}]
    /\ txInstances = [r \in Requests |-> {}]
    /\ error = [r \in Requests |-> ""]
    /\ inFlightWith = [r \in Requests |-> {}]
    /\ cancels = 0
    /\ cancelResult = NoCancel
    /\ rruleCall = NoCall
    /\ availability = NoAvailability
    /\ query = NoQuery

\* A request that arrives once a cancellation has been answered.
RequestAfterCancel(r) ==
    /\ cancelResult.kind # "none"
    /\ Validate(r)

NextRebook ==
    \/ \E r \in Requests : RequestAfterCancel(r)
    \/ \E r \in Requests : SaveSeries(r)
    \/ \E r \in Requests : SaveInstances(r)
    \/ \E r \in Requests : Commit(r)
    \/ \E r \in Requests : Rollback(r)
    \/ Cancel
    \/ Tick

RebookSpec == RebookInit /\ [][NextRebook]_vars

(***************************************************************************)
(* Transactions that end, and the search loop taken one iteration at a     *)
(* time.  The store holds one earlier booking (series 0) that keeps R2     *)
(* busy beyond the search horizon.                                         *)
(***************************************************************************)
\* The requests sent: a single booking and a bounded series on R1, which
\* conflict with each other, and a booking on R2, which the store refuses.
TransactionInputs ==
    { CreateBookingDto("R1", 0, Hour, NoRule),
      CreateBookingDto("R1", 0, Hour, Rule("WEEKLY", NONE, 2, NONE)),
      CreateBookingDto("R2", 0, Hour, NoRule) }

TransactionInit ==
    /\ now = 0
    /\ series = {SeriesRow(0, CreateBookingDto("R2", 0, (SearchDays + 1) * Day, NoRule))}
    /\ instances = NewInstances(0, CreateBookingDto("R2", 0, (SearchDays + 1) * Day, NoRule))
    /\ pc = [r \in Requests |-> "idle"]
    /\ dto = [r \in Requests |-> NoDto]
    /\ txSeries = [r \in Requests |-> {}]
    /\ txInstances = [r \in Requests |-> {}]
    /\ error = [r \in Requests |-> ""]
    /\ result = [r \in Requests |-> NoResult]
    /\ inFlightWith = [r \in Requests |-> {}]
    /\ cancels = 0
    /\ cancelResult = NoCancel
    /\ rruleCall = NoCall
    /\ availability = NoAvailability
    /\ query = NoQuery

\* A save or commitTransaction throws for a reason of the storage layer
\* (connection lost, lock timeout): control passes to the catch block.
SaveOrCommitThrows(r) ==
    /\ pc[r] \in {"validated", "seriesSaved", "saved"}
    /\ pc' = [pc EXCEPT ![r] = "failed"]
    /\ error' = [error EXCEPT ![r] = "TransientStorageFailure"]
    /\ UNCHANGED << series, instances, now, dto, txSeries, txInstances, result,
                    inFlightWith, cancels, cancelResult, rruleCall, availability,
                    query >>

\* findNextAvailableSlots without a rule, up to the while loop: the call
\* has read the clock and holds currentTime and searchEndDate.
SearchCall(resourceId, startTime, duration, maxSlots, calledAt, currentTime) ==
    [fn |-> "searching", resource_id |-> resourceId, start_time |-> startTime,
     end_time |-> startTime + duration, maxSlots |-> maxSlots, calledAt |-> calledAt,
     currentTime |-> currentTime, searchEndDate |-> calledAt + SearchDays * Day]

\* The searches asked for: from the clock on a resource with room, and
\* from two hours before the horizon and from beyond the horizon on the
\* resource that is busy all the time.
SearchRequests ==
    { << "R1", 0 >>,
      << "R2", SearchDays * Day - 2 * Hour >>,
      << "R2", SearchDays * Day + 1 >> }

SearchStart ==
    /\ query.fn = "none"
    /\ \E request \in SearchRequests :
          query' = SearchCall(request[1], request[2], Hour, SuggestedSlots, now,
                              Max(request[2], now))
    /\ UNCHANGED << series, instances, now, pc, dto, txSeries, txInstances, error,
                    result, inFlightWith, cancels, cancelResult, rruleCall,
                    availability >>

\* One evaluation of the loop condition and, when it holds, one iteration.
SearchLoop ==
    /\ query.fn = "searching"
    /\ LET duration == query.end_time - query.start_time
           Return(slots) == QueryCall("findNextAvailableSlots", query.resource_id,
                                      query.start_time, query.end_time, NoRule,
                                      query.maxSlots, query.calledAt, TRUE, << >>, slots)
       IN  IF query.currentTime < query.searchEndDate /\ 0 < query.maxSlots
           THEN IF findConflictsForTimeRange(query.resource_id, query.currentTime,
                                             query.currentTime + duration) = {}
                THEN query' = Return(<< [start |-> query.currentTime,
                                         end |-> query.currentTime + duration] >>)
                ELSE query' = [query EXCEPT !.currentTime = @ + Hour]
           ELSE query' = Return(<< >>)
    /\ UNCHANGED << series, instances, now, pc, dto, txSeries, txInstances, error,
                    result, inFlightWith, cancels, cancelResult, rruleCall,
                    availability >>

NextTransaction ==
    \/ \E r \in Requests : ValidateFrom(r, TransactionInputs)
    \/ \E r \in Requests : SaveSeries(r)
    \/ \E r \in Requests : SaveInstances(r)
    \/ \E r \in Requests : Commit(r)
    \/ \E r \in Requests : SaveOrCommitThrows(r)
    \/ \E r \in Requests : Rollback(r)
    \/ SearchStart
    \/ SearchLoop

\* Every awaited call of a request returns in the end, the storage layer
\* ends a lock wait once the transaction waited for has ended, and the
\* loop of the search goes on.
TransactionSpec ==
    /\ TransactionInit
    /\ [][NextTransaction]_vars
    /\ \A r \in Requests : /\ WF_vars(SaveSeries(r))
                           /\ WF_vars(SaveInstances(r))
                           /\ WF_vars(Commit(r))
                           /\ WF_vars(Rollback(r))
    /\ WF_vars(SearchLoop)

(***************************************************************************)
(* Properties.                                                             *)
(***************************************************************************)
Finishes(r) == pc[r] # "done" /\ pc'[r] = "done"

Commits(r) == pc[r] = "saved" /\ pc'[r] = "done"

RefusedByStorage(r) == pc[r] = "done" /\ error[r] = "QueryFailedError 23P01"

\* C1: in every reachable state, any two distinct stored instances with
\* is_exception = false and the same resource_id have non-overlapping
\* half-open intervals.
C1_NoOverlappingInstances ==
    \A a, b \in instances :
        (a # b /\ ~a.is_exception /\ ~b.is_exception /\ a.resource_id = b.resource_id)
            => ~(a.start_time < b.end_time /\ b.start_time < a.end_time)

\* C1 witness: two non-exception instances share a resource after a request
\* on that resource was refused by the storage constraint.
C1_Witness ==
    \E r \in Requests : \E a, b \in instances :
        /\ RefusedByStorage(r)
        /\ a # b /\ ~a.is_exception /\ ~b.is_exception
        /\ a.resource_id = b.resource_id /\ a.resource_id = dto[r].resource_id

\* The occurrences of an accepted series that hold the resource: its
\* non-exception instances, or for an unbounded series its non-cancelled
\* occurrences up to the expansion horizon.
AcceptedOccurrences(s) ==
    IF s.recurrence_rule.present /\ isInfiniteRecurrence(s.recurrence_rule)
    THEN {g \in generateRecurringInstances(s, s.start_time, twoYearsFromNow(now) + 1) :
             ~isInstanceException(s.id, g.start)}
    ELSE {[start |-> i.start_time, end |-> i.end_time] :
             i \in {x \in instances : x.series_id = s.id /\ ~x.is_exception}}

\* C2: no occurrence of one accepted series overlaps an occurrence of a
\* different accepted series on the same resource, virtual occurrences of
\* unbounded series included.
C2_NoOverlapAmongAccepted ==
    \A s1, s2 \in series :
        (s1.id # s2.id /\ s1.resource_id = s2.resource_id)
            => \A o1 \in AcceptedOccurrences(s1) : \A o2 \in AcceptedOccurrences(s2) :
                   ~isOverlapping(o1.start, o1.end, o2.start, o2.end)

\* C3: two valid requests for overlapping windows on the same resource that
\* were handled concurrently, with no other booking on the resource, end in
\* exactly one success and one conflict outcome.
C3_ExactlyOneSuccessOneConflict ==
    \A r1, r2 \in Requests :
        ( /\ r1 < r2
          /\ pc[r1] = "done" /\ pc[r2] = "done"
          /\ r2 \in inFlightWith[r1]
          /\ dto[r1].resource_id = dto[r2].resource_id
          /\ isOverlapping(dto[r1].start_time, dto[r1].end_time,
                           dto[r2].start_time, dto[r2].end_time)
          /\ \A s \in series : s.resource_id = dto[r1].resource_id => s.id \in {r1, r2} )
        => {result[r1].kind, result[r2].kind} = {"success", "conflict"}

\* C4: a creation whose save is refused by the storage exclusion constraint
\* ends in a conflict outcome, never in an error.
C4_ExclusionViolationIsConflict ==
    \A r \in Requests : RefusedByStorage(r) => result[r].kind = "conflict"

\* C5: a validated request whose window overlaps an existing accepted
\* booking ends in a conflict outcome with at least one conflict and at most
\* 5 recommended slots, each conflict-free and not before now.
C5_ConflictOutcomeWithSlots ==
    [][\A r \in Requests :
          ( /\ pc[r] \in {"saved", "failed"}
            /\ Finishes(r)
            /\ findConflicts(dto[r].resource_id, dto[r].start_time, dto[r].end_time,
                             dto[r].recurrence_rule) # {} )
          => LET res == result'[r]
             IN  /\ res.kind = "conflict"
                 /\ Cardinality(res.conflicts) >= 1
                 /\ Len(res.next_available_slots) <= SuggestedSlots
                 /\ \A k \in DOMAIN res.next_available_slots :
                       LET slot == res.next_available_slots[k]
                       IN  /\ slot.start >= now
                           /\ findConflictsForTimeRange(dto[r].resource_id,
                                                        slot.start, slot.end) = {}
      ]_vars

\* A window that starts exactly at the end of a stored non-exception
\* instance of the resource, or ends exactly at its start.
Touches(d) ==
    \E i \in instances :
        /\ ~i.is_exception
        /\ i.resource_id = d.resource_id
        /\ (i.end_time = d.start_time \/ d.end_time = i.start_time)

\* C6: a single booking that touches an existing booking and overlaps
\* nothing (findConflicts reports no conflict for it) is accepted by the
\* storage layer.
C6_TouchingAccepted ==
    [][\A r \in Requests :
          ( /\ pc[r] = "seriesSaved"
            /\ pc'[r] # "seriesSaved"
            /\ ~dto[r].recurrence_rule.present
            /\ Touches(dto[r])
            /\ findConflicts(dto[r].resource_id, dto[r].start_time, dto[r].end_time,
                             dto[r].recurrence_rule) = {} )
          => pc'[r] = "saved"
      ]_vars

\* The occurrence starts the rule stands for: templateStart stepped by
\* frequency * interval, count of them when count is given, else those not
\* after until.
SpecStep(rule) ==
    (IF rule.freq = "WEEKLY" THEN 7 * 24 ELSE 24) * Hour
        * (IF rule.interval = NONE THEN 1 ELSE rule.interval)

SpecBoundedOccurrences(rule, templateStart) ==
    LET last == IF rule.count # NONE
                THEN templateStart + (rule.count - 1) * SpecStep(rule)
                ELSE rule.until
    IN  {t \in templateStart .. last : (t - templateStart) % SpecStep(rule) = 0}

SpecWindows(d) ==
    IF ~d.recurrence_rule.present THEN {<< d.start_time, d.end_time >>}
    ELSE IF d.recurrence_rule.count # NONE \/ d.recurrence_rule.until # NONE
    THEN {<< o, o + (d.end_time - d.start_time) >> :
             o \in SpecBoundedOccurrences(d.recurrence_rule, d.start_time)}
    ELSE {}

\* C7: a successful creation adds exactly one series row and the
\* non-exception instances the rule determines: the template window when
\* there is no rule, one per occurrence (start = occurrence, end =
\* occurrence + duration) for a bounded rule, none for an unbounded rule.
C7_SuccessAddsSeriesAndInstances ==
    [][\A r \in Requests :
          Commits(r)
          => LET addedSeries == series' \ series
                 added == instances' \ instances
             IN  /\ series \subseteq series'
                 /\ instances \subseteq instances'
                 /\ result'[r].kind = "success"
                 /\ addedSeries = {SeriesRow(r, dto[r])}
                 /\ \A i \in added : /\ i.series_id = r
                                     /\ i.resource_id = dto[r].resource_id
                                     /\ i.is_exception = FALSE
                 /\ {<< i.start_time, i.end_time >> : i \in added} = SpecWindows(dto[r])
                 /\ Cardinality(added) = Cardinality(SpecWindows(dto[r]))
      ]_vars

\* C7 witness: a bounded series was created with two instances and an
\* unbounded series was created with none.
C7_Witness ==
    \E r1, r2 \in Requests :
        /\ result[r1].kind = "success" /\ result[r2].kind = "success"
        /\ dto[r1].recurrence_rule.count = 2
        /\ Cardinality({i \in instances : i.series_id = r1}) = 2
        /\ dto[r2].recurrence_rule.present
        /\ isInfiniteRecurrence(dto[r2].recurrence_rule)
        /\ {i \in instances : i.series_id = r2} = {}

\* A rule that is well formed but stands for no occurrence.
SpecNoOccurrence(rule, templateStart, nowv) ==
    /\ rule.present
    /\ rule.freq \in {"DAILY", "WEEKLY", "MONTHLY", "YEARLY"}
    /\ \/ rule.count = 0
       \/ rule.count = NONE /\ rule.until # NONE /\ rule.until < templateStart
       \/ rule.count = NONE /\ rule.until = NONE
            /\ templateStart > nowv + 2 * 365 * 24 * Hour

\* C8: a request with start >= end, with start before now, or with a rule
\* that expands to zero occurrences is rejected at once: no transaction is
\* opened and the store is unchanged.
C8_InvalidInputRejected ==
    [][\A r \in Requests :
          (pc[r] = "idle" /\ pc'[r] # "idle")
          => LET d == dto'[r]
             IN  ( \/ d.start_time >= d.end_time
                   \/ d.start_time < now
                   \/ SpecNoOccurrence(d.recurrence_rule, d.start_time, now) )
                 => /\ pc'[r] = "done"
                    /\ result'[r].kind = "rejected"
                    /\ txSeries'[r] = {} /\ txInstances'[r] = {}
                    /\ series' = series /\ instances' = instances
      ]_vars

\* C8 witness: one request was rejected for a COUNT=0 rule on an otherwise
\* valid window, another for a start in the past.
C8_Witness ==
    \E r1, r2 \in Requests :
        /\ result[r1].kind = "rejected" /\ result[r2].kind = "rejected"
        /\ dto[r1].recurrence_rule.count = 0
        /\ dto[r1].start_time < dto[r1].end_time /\ dto[r1].start_time >= now
        /\ ~dto[r2].recurrence_rule.present
        /\ dto[r2].start_time < dto[r2].end_time

\* C9: a creation that does not end in success leaves neither its series
\* row nor any of its instances in the store.
C9_AllOrNothing ==
    \A r \in Requests :
        (pc[r] = "done" /\ result[r].kind # "success")
            => /\ \A s \in series : s.id # r
               /\ \A i \in instances : i.series_id # r

\* C9 witness: a series of two occurrences was refused by the storage
\* constraint after its series row had been written in the transaction.
C9_Witness ==
    \E r \in Requests :
        /\ RefusedByStorage(r)
        /\ result[r].kind = "error"
        /\ dto[r].recurrence_rule.count = 2

\* C10: a request commits only after the conflict check found zero
\* conflicts for every occurrence window of the request.
C10_CommitOnlyWithoutConflicts ==
    [][\A r \in Requests :
          Commits(r)
          => findConflicts(dto[r].resource_id, dto[r].start_time, dto[r].end_time,
                           dto[r].recurrence_rule) = {}
      ]_vars

(***************************************************************************)
(* Cancellation of one occurrence.                                         *)
(***************************************************************************)
\* A step of cancelException.
Cancels == cancels' = cancels + 1

\* Two instants on the same calendar day.
SameDay(t1, t2) == t1 \div Day = t2 \div Day

\* The starts of the occurrences of a series on the calendar day of date.
OccurrencesOn(s, date) ==
    IF ~s.recurrence_rule.present
    THEN {o \in {s.start_time} : SameDay(o, date)}
    ELSE {o \in Range(parseRRule(s.recurrence_rule, s.start_time, now).occurrences) :
             SameDay(o, date)}

StoredOn(s, date) == {i \in instances : i.series_id = s.id /\ SameDay(i.start_time, date)}

UnboundedSeries(s) ==
    /\ s.recurrence_rule.present
    /\ s.recurrence_rule.count = NONE
    /\ s.recurrence_rule.until = NONE

\* The windows that overlap the occurrence [o, o + duration).
WindowsOver(o, duration) ==
    {w \in (o - 1 .. o + duration) \X (o .. o + duration + 1) :
        w[1] < w[2] /\ w[1] < o + duration /\ o < w[2]}

\* After a cancellation that stored a new exception row for an unbounded
\* series: no conflict check for a window overlapping the cancelled
\* occurrence reports it, and availability over its day leaves its window
\* free when no other series holds the resource.
CancelledOccurrenceIgnored ==
    \A s \in series :
        ( /\ cancelResult.kind = "cancelled"
          /\ s.id = cancelResult.seriesId
          /\ UnboundedSeries(s)
          /\ cancelResult.instance.id[2] = "exc" )
        => LET duration == s.end_time - s.start_time
           IN  \A o \in OccurrencesOn(s, cancelResult.instanceDate) :
                 /\ \A w \in WindowsOver(o, duration) :
                      \A c \in findConflictsForTimeRange(s.resource_id, w[1], w[2]) :
                         ~(c.series_id = s.id /\ c.start_time = o)
                 /\ (\A other \in series : other.resource_id = s.resource_id => other = s)
                    => \A seriesOrder \in Orders(infiniteSeries(s.resource_id)) :
                         LET free == calculateAvailableSlots(
                                         startOfDay(o), startOfDay(o) + Day,
                                         findBookedSlots(s.resource_id, startOfDay(o),
                                                         startOfDay(o) + Day, seriesOrder))
                         IN  \E k \in DOMAIN free :
                                /\ free[k].start_time <= o
                                /\ o + duration <= free[k].end_time

\* C11: cancelling a date of an unbounded series that has no stored instance
\* for that date adds exactly one instance, an exception owned by the series
\* and carrying its resource_id; afterwards no conflict check for a window
\* overlapping the occurrence reports it, and availability over a range
\* containing it does not treat it as busy.
C11_CancelVirtualOccurrence ==
    /\ [][Cancels =>
            \A s \in series :
              ( /\ s.id = cancelResult'.seriesId
                /\ UnboundedSeries(s)
                /\ OccurrencesOn(s, cancelResult'.instanceDate) # {}
                /\ StoredOn(s, cancelResult'.instanceDate) = {} )
              => LET added == instances' \ instances
                 IN  /\ cancelResult'.kind = "cancelled"
                     /\ instances \subseteq instances'
                     /\ Cardinality(added) = 1
                     /\ \A e \in added : /\ e.is_exception
                                         /\ e.series_id = s.id
                                         /\ e.resource_id = s.resource_id
                                         /\ e = cancelResult'.instance
         ]_vars
    /\ []CancelledOccurrenceIgnored

\* C11 witness: the second day of an unbounded series that starts off
\* midnight was cancelled, and its exception row is stored.
C11_Witness ==
    \E s \in series :
        /\ cancelResult.kind = "cancelled"
        /\ cancelResult.seriesId = s.id
        /\ UnboundedSeries(s)
        /\ s.start_time % Day # 0
        /\ cancelResult.instanceDate = Day + 3
        /\ cancelResult.instance \in instances
        /\ cancelResult.instance.is_exception
        /\ cancelResult.instance.start_time = Day + s.start_time

\* C12: when the series has a stored non-exception instance that starts on
\* the calendar day of instanceDate, cancelling sets is_exception on that
\* instance and returns it; the stored instances are the same rows otherwise
\* and no row is added.
C12_CancelStoredInstance ==
    [][Cancels =>
         LET onDay == {i \in instances :
                          /\ i.series_id = cancelResult'.seriesId
                          /\ ~i.is_exception
                          /\ SameDay(i.start_time, cancelResult'.instanceDate)}
         IN  onDay # {}
             => \E e \in onDay :
                   /\ cancelResult'.kind = "cancelled"
                   /\ cancelResult'.instance = [e EXCEPT !.is_exception = TRUE]
                   /\ instances' = (instances \ {e}) \cup {[e EXCEPT !.is_exception = TRUE]}
                   /\ Cardinality(instances') = Cardinality(instances)
                   /\ {i.id : i \in instances'} = {i.id : i \in instances}
      ]_vars

\* C12 witness: the stored first instance of a series of two occurrences was
\* cancelled in place.
C12_Witness ==
    /\ cancelResult.kind = "cancelled"
    /\ cancelResult.instance.id = << cancelResult.seriesId, "occ", 1 >>
    /\ cancelResult.instance \in instances
    /\ cancelResult.instance.is_exception
    /\ Cardinality({i \in instances : i.series_id = cancelResult.seriesId}) = 2

\* C13: cancelling with a seriesId that resolves to no stored series fails
\* with the series-not-found error and leaves every series and instance
\* unchanged.
C13_UnknownSeriesFails ==
    [][Cancels =>
         ((\A s \in series : s.id # cancelResult'.seriesId)
             => /\ cancelResult'.kind = "Recurring booking series not found"
                /\ series' = series
                /\ instances' = instances)
      ]_vars

\* C13 witness: a cancellation failed with series-not-found while the store
\* held a series and an instance.
C13_Witness ==
    /\ cancelResult.kind = "Recurring booking series not found"
    /\ series # {}
    /\ instances # {}
    /\ \A s \in series : s.id # cancelResult.seriesId

\* C14: cancelling, for an existing series, a date on which the series has
\* no occurrence (no stored instance and no occurrence of its rule on that
\* day) fails with an error and creates no instance.
C14_UnknownDateFails ==
    [][Cancels =>
         \A s \in series :
           ( /\ s.id = cancelResult'.seriesId
             /\ OccurrencesOn(s, cancelResult'.instanceDate) = {}
             /\ StoredOn(s, cancelResult'.instanceDate) = {} )
           => /\ cancelResult'.kind # "cancelled"
              /\ instances' = instances
      ]_vars

(***************************************************************************)
(* Expansion of recurrence rules.  The rule a string stands for is read    *)
(* off its parts: the frequency word, and the count, interval and until    *)
(* given under any letter case of the key.                                 *)
(***************************************************************************)
FreqKeys == {"FREQ", "freq", "Freq"}
CountKeys == {"COUNT", "count", "Count"}
IntervalKeys == {"INTERVAL", "interval"}
UntilKeys == {"UNTIL", "until"}

HasPart(parts, keys) == \E k \in DOMAIN parts : parts[k].key \in keys

PartOf(parts, keys) == parts[CHOOSE k \in DOMAIN parts : parts[k].key \in keys]

\* The frequency the string names, or "" when it names none of the four.
SpecFreq(parts) ==
    IF ~HasPart(parts, FreqKeys) THEN ""
    ELSE LET word == PartOf(parts, FreqKeys).word
         IN  CASE word \in {"DAILY", "daily"} -> "DAILY"
               [] word \in {"WEEKLY", "weekly"} -> "WEEKLY"
               [] word = "MONTHLY" -> "MONTHLY"
               [] word = "YEARLY" -> "YEARLY"
               [] OTHER -> ""

\* A count or interval part whose value is not a number.
SpecBadNumber(parts) ==
    \E k \in DOMAIN parts : parts[k].key \in CountKeys \cup IntervalKeys /\ parts[k].word # ""

SpecInterval(parts) ==
    IF HasPart(parts, IntervalKeys) THEN PartOf(parts, IntervalKeys).num ELSE 1

\* A rule with a supported frequency and numbers where numbers belong.
SpecWellFormed(parts) == SpecFreq(parts) # "" /\ ~SpecBadNumber(parts)

MonthIndex(t) ==
    ((t \div Day) \div DaysPerYear) * MonthsPerYear + monthOf((t \div Day) % DaysPerYear)

DayOfMonth(t) ==
    ((t \div Day) % DaysPerYear) - DaysBeforeMonth(monthOf((t \div Day) % DaysPerYear))

\* t lies a whole number of periods (frequency x interval) after T; a month
\* without the day of T holds no instant of the rule.
OnStep(T, t, freq, interval) ==
    /\ t >= T
    /\ CASE freq = "DAILY" -> (t - T) % (interval * 24 * Hour) = 0
         [] freq = "WEEKLY" -> (t - T) % (interval * 7 * 24 * Hour) = 0
         [] freq = "YEARLY" -> (t - T) % (interval * 365 * 24 * Hour) = 0
         [] freq = "MONTHLY" -> /\ t % Day = T % Day
                                /\ DayOfMonth(t) = DayOfMonth(T)
                                /\ (MonthIndex(t) - MonthIndex(T)) % interval = 0

\* next is the first instant of the rule after prev.
NextStep(T, prev, next, freq, interval) ==
    /\ prev < next
    /\ OnStep(T, next, freq, interval)
    /\ \A d \in 1 .. ((next - prev) \div Day) - 1 : ~OnStep(T, prev + d * Day, freq, interval)

ParseReturned == rruleCall.fn = "parseRRule"

\* C15: for a rule with count = n >= 0 (any frequency, any interval >= 1,
\* with or without until) the expansion returns exactly n instants in
\* increasing order, the first equal to templateStart and each next one
\* frequency x interval after the previous; count = 0 returns the empty
\* sequence.
C15_CountGivesExactlyCount ==
    LET parts == rruleCall.rruleString
        occ == rruleCall.result.occurrences
    IN  ( /\ ParseReturned
          /\ SpecWellFormed(parts)
          /\ HasPart(parts, CountKeys) )
        => /\ rruleCall.result.ok
           /\ Len(occ) = PartOf(parts, CountKeys).num
           /\ Len(occ) >= 1 => occ[1] = rruleCall.startDate
           /\ \A k \in 1 .. Len(occ) - 1 :
                 NextStep(rruleCall.startDate, occ[k], occ[k + 1],
                          SpecFreq(parts), SpecInterval(parts))

UnboundedWeekly(parts) ==
    /\ SpecWellFormed(parts)
    /\ SpecFreq(parts) = "WEEKLY"
    /\ ~HasPart(parts, CountKeys)
    /\ ~HasPart(parts, UntilKeys)

C17_UnboundedIffNoCountNoUntil ==
    rruleCall.fn = "isInfiniteRecurrence"
        => rruleCall.result.infinite
               = (~HasPart(rruleCall.rruleString, CountKeys)
                  /\ ~HasPart(rruleCall.rruleString, UntilKeys))

\* C17 witness: a rule with an interval and a count written in lower case
\* was found bounded.
C17_Witness ==
    /\ rruleCall.fn = "isInfiniteRecurrence"
    /\ HasPart(rruleCall.rruleString, {"count"})
    /\ HasPart(rruleCall.rruleString, IntervalKeys)
    /\ ~HasPart(rruleCall.rruleString, UntilKeys)
    /\ rruleCall.result.infinite = FALSE

C19_InvalidRuleFails ==
    (ParseReturned /\ ~SpecWellFormed(rruleCall.rruleString))
        => /\ ~rruleCall.result.ok
           /\ rruleCall.result.occurrences = << >>

(***************************************************************************)
(* Availability.                                                           *)
(***************************************************************************)
\* The windows that hold the resource and overlap [startDate, endDate): the
\* stored non-exception instances, and the occurrences of unbounded series
\* that are not cancelled.
BusySlots(resourceId, startDate, endDate) ==
    {[start |-> i.start_time, end |-> i.end_time] :
        i \in {x \in instances : /\ x.resource_id = resourceId
                                 /\ ~x.is_exception
                                 /\ x.start_time < endDate
                                 /\ startDate < x.end_time}}
    \cup
    UNION {{[start |-> o, end |-> o + (s.end_time - s.start_time)] :
               o \in {x \in Range(parseRRule(s.recurrence_rule, s.start_time, now).occurrences) :
                         /\ x < endDate
                         /\ startDate < x + (s.end_time - s.start_time)
                         /\ ~\E e \in instances : /\ e.series_id = s.id
                                                  /\ e.is_exception
                                                  /\ SameDay(e.start_time, x)}} :
           s \in {x \in series : x.resource_id = resourceId /\ UnboundedSeries(x)}}

\* C20: availability over a valid range returns exactly one free interval,
\* the whole range, when the resource has no busy slot in the range, and
\* exactly the two free intervals before and after the busy slot when there
\* is exactly one busy slot strictly inside the range.
C20_FreeIntervalsAroundBusySlot ==
    [][(availability.kind = "none" /\ availability'.kind = "ok")
         => LET startDate == availability'.start_date
                endDate == availability'.end_date
                busy == BusySlots(availability'.resource_id, startDate, endDate)
            IN  /\ busy = {}
                   => availability'.available_slots
                         = << [start_time |-> startDate, end_time |-> endDate] >>
                /\ \A b \in busy :
                      (busy = {b} /\ startDate < b.start /\ b.end < endDate)
                      => availability'.available_slots
                            = << [start_time |-> startDate, end_time |-> b.start],
                                 [start_time |-> b.end, end_time |-> endDate] >>
      ]_vars

\* C20 witness: a query found one booking strictly inside its range and
\* returned two free intervals.
C20_Witness ==
    /\ availability.kind = "ok"
    /\ Len(availability.available_slots) = 2
    /\ \E b \in BusySlots(availability.resource_id, availability.start_date,
                          availability.end_date) :
          /\ availability.start_date < b.start
          /\ b.end < availability.end_date
          /\ availability.available_slots[1].end_time = b.start
          /\ availability.available_slots[2].start_time = b.end

(***************************************************************************)
(* Availability over an invalid range.                                     *)
(***************************************************************************)
\* The step in which getAvailability answers.
AvailabilityAnswers == availability.kind = "none" /\ availability'.kind # "none"

\* C21: availability fails with the invalid-range error, and leaves the
\* store as it was, whenever rangeStart >= rangeEnd; over any other range it
\* does not fail.
C21_InvalidRangeFails ==
    [][AvailabilityAnswers
         => /\ (availability'.start_date >= availability'.end_date)
                <=> availability'.kind = "start_date must be before end_date"
            /\ availability'.start_date >= availability'.end_date
                => /\ availability'.available_slots = << >>
                   /\ series' = series
                   /\ instances' = instances
      ]_vars

\* C21 witness: a query over an empty range (start = end) of a resource
\* that has bookings was refused.
C21_Witness ==
    /\ availability.kind = "start_date must be before end_date"
    /\ availability.start_date = availability.end_date
    /\ \E i \in instances : i.resource_id = availability.resource_id

(***************************************************************************)
(* The slot search.                                                        *)
(***************************************************************************)
SlotsReturned == query.fn = "findNextAvailableSlots"

\* C22: every slot returned by nextAvailableSlots starts at or after
\* max(fromTime, now): no recommended slot starts in the past.
C22_SlotsNotInThePast ==
    SlotsReturned
    => \A k \in DOMAIN query.slots :
          /\ query.slots[k].start >= query.start_time
          /\ query.slots[k].start >= query.calledAt

\* C22 witness: a search asked from an instant before the clock returned a
\* slot, which starts at the clock.
C22_Witness ==
    /\ SlotsReturned
    /\ query.start_time < query.calledAt
    /\ query.slots # << >>
    /\ query.slots[1].start = query.calledAt

\* C23: nextAvailableSlots never returns a slot that starts at or after
\* now + 90 days, with or without a rule.
C23_SlotsBeforeSearchHorizon ==
    SlotsReturned
    => \A k \in DOMAIN query.slots :
          query.slots[k].start < query.calledAt + SearchDays * Day

\* The step in which findNextAvailableSlots answers.
SlotsAnswered == query.fn = "none" /\ query'.fn = "findNextAvailableSlots"

\* The instants s, s + 1h, s + 2h, ... below the search horizon.
HourlyCandidates(s, horizon) == {t \in s .. horizon - 1 : (t - s) % Hour = 0}

\* C24: with no rule and maxSlots >= 1, nextAvailableSlots returns at most
\* one slot: the window [t, t + duration) for the smallest t in {s, s + 1h,
\* s + 2h, ...} below the horizon (s = max(fromTime, now)) for which the
\* conflict check is empty; every earlier candidate had a conflict, and the
\* result is empty when every candidate has one.
C24_FirstFreeHourlyWindow ==
    [][(SlotsAnswered /\ ~query'.recurrence_rule.present /\ query'.maxSlots >= 1)
         => LET duration == query'.end_time - query'.start_time
                candidates == HourlyCandidates(Max(query'.start_time, now),
                                               now + SearchDays * Day)
                Free(t) == findConflictsForTimeRange(query'.resource_id, t,
                                                     t + duration) = {}
            IN  IF \A t \in candidates : ~Free(t)
                THEN query'.slots = << >>
                ELSE /\ Len(query'.slots) = 1
                     /\ query'.slots[1].start \in candidates
                     /\ query'.slots[1].end = query'.slots[1].start + duration
                     /\ Free(query'.slots[1].start)
                     /\ \A t \in candidates : t < query'.slots[1].start => ~Free(t)
      ]_vars

\* C24 witness: a search without a rule on a resource that is booked at
\* the requested time and the hour after it returned the window two hours
\* later or more.
C24_Witness ==
    /\ SlotsReturned
    /\ ~query.recurrence_rule.present
    /\ query.maxSlots >= 1
    /\ Len(query.slots) = 1
    /\ query.slots[1].start >= Max(query.start_time, query.calledAt) + 2 * Hour

\* C25: nextAvailableSlots never returns more than maxSlots slots, with or
\* without a rule; with maxSlots = 0 it returns the empty sequence.
C25_AtMostMaxSlots ==
    SlotsReturned
    => /\ Len(query.slots) <= query.maxSlots
       /\ query.maxSlots = 0 => query.slots = << >>

\* C25 witness: a search with an unbounded rule, which has more conflict-free
\* occurrences than asked for, returned exactly maxSlots slots.
C25_Witness ==
    /\ SlotsReturned
    /\ query.recurrence_rule.present
    /\ isInfiniteRecurrence(query.recurrence_rule)
    /\ query.maxSlots > 0
    /\ Len(query.slots) = query.maxSlots
    /\ query.slots[1].start > Max(query.start_time, query.calledAt)

(***************************************************************************)
(* Resources are independent.                                              *)
(***************************************************************************)
\* The rows of the resource of request r.
OnResourceOf(r, rows) == {i \in rows : i.resource_id = dto[r].resource_id}

\* The step in which the insert of the instance rows of r is answered.
InsertAnswered(r) == pc[r] = "seriesSaved" /\ pc'[r] \in {"saved", "failed"}

\* The window that holds every booking of the creation requests.
AllTime == << 0, 2 * Day >>

\* C26: operations on different resources are independent.  A booking on
\* another resource is never reported as a conflict; a creation never waits
\* for a transaction that wrote rows of other resources only; and the store
\* refuses the rows of a creation exactly when they conflict with rows of
\* its own resource, so creations on different resources that are each
\* conflict-free on their own resource all succeed, also when they run
\* concurrently.
C26_ResourcesIndependent ==
    /\ [][\A r \in Requests :
             InsertAnswered(r)
             => (pc'[r] = "failed"
                 <=> ExclusionViolation(NewInstances(r, dto[r]),
                                        OnResourceOf(r, instances)))]_vars
    /\ [](\A r \in Requests :
             (/\ pc[r] = "seriesSaved"
              /\ \A q \in Requests \ {r} : OnResourceOf(r, txInstances[q]) = {})
             => ~WaitsForOther(r, NewInstances(r, dto[r])))
    /\ [](\A resourceId \in Resources :
             \A c \in findConflictsForTimeRange(resourceId, AllTime[1], AllTime[2]) :
                \E s \in series : s.id = c.series_id /\ s.resource_id = resourceId)

\* C26 witness: two creations for the same window on different resources
\* ran concurrently and both succeeded.
C26_Witness ==
    \E r \in Requests : \E q \in Requests \ {r} :
        /\ q \in inFlightWith[r]
        /\ result[r].kind = "success"
        /\ result[q].kind = "success"
        /\ dto[r].resource_id # dto[q].resource_id
        /\ dto[r].start_time = dto[q].start_time
        /\ dto[r].end_time = dto[q].end_time
        /\ \E i \in instances : i.series_id = r
        /\ \E i \in instances : i.series_id = q

(***************************************************************************)
(* The conflict query.                                                     *)
(***************************************************************************)
\* The step in which findConflicts returns.
ConflictsAnswered == query.fn = "none" /\ query'.fn = "findConflicts" /\ query'.ok

ConflictsReturned == query.fn = "findConflicts" /\ query.ok

\* The candidate windows of a request: its own window when it has no rule,
\* and one window of the same length at every occurrence of its rule
\* otherwise.
CandidateWindows(q) ==
    IF ~q.recurrence_rule.present
    THEN {<< q.start_time, q.end_time >>}
    ELSE {<< o, o + (q.end_time - q.start_time) >> :
             o \in Range(parseRRule(q.recurrence_rule, q.start_time, q.calledAt).occurrences)}

\* Half-open intervals [s1, e1) and [s2, e2) share an instant.
Overlap(s1, e1, s2, e2) == s1 < e2 /\ s2 < e1

\* The entries of a result that stand for stored instances.
MaterializedEntries(conflicts) ==
    {conflicts[k] : k \in {j \in DOMAIN conflicts :
                              \E i \in instances : i.id = conflicts[j].id}}

\* C27: for the materialized source, findConflicts returns exactly the stored
\* instances of the resource with is_exception = false whose interval
\* overlaps (half-open) at least one candidate window; an instance that
\* overlaps none of the windows is not returned.
C27_MaterializedConflicts ==
    [][ConflictsAnswered
         => MaterializedEntries(query'.conflicts)
            = {ConflictInfo(i.id, i.start_time, i.end_time, i.series_id) :
                  i \in {x \in instances :
                            /\ x.resource_id = query'.resource_id
                            /\ ~x.is_exception
                            /\ \E w \in CandidateWindows(query') :
                                   Overlap(x.start_time, x.end_time, w[1], w[2])}}
      ]_vars

\* C27 witness: a request with a rule was checked; an instance that overlaps
\* only a later occurrence window was returned and another instance of the
\* resource, which overlaps no window, was not.
C27_Witness ==
    /\ ConflictsReturned
    /\ query.recurrence_rule.present
    /\ \E i \in instances :
          /\ ~Overlap(i.start_time, i.end_time, query.start_time, query.end_time)
          /\ \E k \in DOMAIN query.conflicts : query.conflicts[k].id = i.id
    /\ \E i \in instances :
          /\ i.resource_id = query.resource_id
          /\ ~i.is_exception
          /\ \A k \in DOMAIN query.conflicts : query.conflicts[k].id # i.id

\* The entries of a result that stand for occurrences of series s.
VirtualEntries(conflicts, s) ==
    {conflicts[k] : k \in {j \in DOMAIN conflicts : conflicts[j].id = << s.id >>}}

\* The occurrences of an unbounded series s that are not cancelled: no
\* exception instance of the series lies on the day of the occurrence.
LiveOccurrences(s) ==
    {o \in Range(parseRRule(s.recurrence_rule, s.start_time, now).occurrences) :
        ~\E e \in instances : /\ e.series_id = s.id
                               /\ e.is_exception
                               /\ SameDay(e.start_time, o)}

\* C28: for the unbounded source, findConflicts reports every occurrence of
\* every unbounded series of the resource that is not cancelled and whose
\* window [o, o + seriesDuration) overlaps a candidate window, whatever the
\* duration and step of the series, and every occurrence it reports overlaps
\* a candidate window.
C28_UnboundedConflicts ==
    [][ConflictsAnswered
         => \A s \in {x \in series : /\ x.resource_id = query'.resource_id
                                      /\ UnboundedSeries(x)} :
               LET seriesDuration == s.end_time - s.start_time
               IN  /\ \A o \in LiveOccurrences(s) :
                         (\E w \in CandidateWindows(query') :
                             Overlap(o, o + seriesDuration, w[1], w[2]))
                         => ConflictInfo(<< s.id >>, o, o + seriesDuration, s.id)
                               \in VirtualEntries(query'.conflicts, s)
                   /\ \A c \in VirtualEntries(query'.conflicts, s) :
                         \E w \in CandidateWindows(query') :
                            Overlap(c.start_time, c.end_time, w[1], w[2])
      ]_vars

\* Series s has an exception instance on the day of instant t.
CancelledOn(s, t) ==
    \E e \in instances : /\ e.series_id = s.id
                          /\ e.is_exception
                          /\ SameDay(e.start_time, t)

\* C29: findConflicts never reports a cancelled occurrence: no stored
\* instance with is_exception = true is in the result, and no virtual
\* occurrence of an unbounded series for which the series has an exception
\* instance on the same day.
C29_NoCancelledOccurrenceReported ==
    [][ConflictsAnswered
         => \A k \in DOMAIN query'.conflicts :
               LET c == query'.conflicts[k]
               IN  /\ \A i \in instances : i.id = c.id => ~i.is_exception
                   /\ \A s \in series :
                          c.id = << s.id >> => ~CancelledOn(s, c.start_time)
      ]_vars

\* C29 witness: an occurrence of an unbounded series was cancelled, then a
\* window over that occurrence was checked and the occurrence was not
\* reported.
C29_Witness ==
    /\ ConflictsReturned
    /\ ~query.recurrence_rule.present
    /\ \E s \in series :
          /\ s.resource_id = query.resource_id
          /\ UnboundedSeries(s)
          /\ \E o \in Range(parseRRule(s.recurrence_rule, s.start_time,
                                       query.calledAt).occurrences) :
                /\ Overlap(o, o + (s.end_time - s.start_time),
                           query.start_time, query.end_time)
                /\ CancelledOn(s, o)
                /\ cancelResult.kind = "cancelled"
                /\ cancelResult.seriesId = s.id
          /\ VirtualEntries(query.conflicts, s) = {}

\* C30: the result of findConflicts has no two entries with the same
\* (source id, start, end), and no existing occurrence is reported a second
\* time under a different id.
C30_EachConflictOnce ==
    [][ConflictsAnswered
         => \A j \in DOMAIN query'.conflicts : \A k \in DOMAIN query'.conflicts :
               j # k
               => LET a == query'.conflicts[j]
                      b == query'.conflicts[k]
                  IN  /\ ~(a.id = b.id /\ a.start_time = b.start_time
                                       /\ a.end_time = b.end_time)
                      /\ ~(a.series_id = b.series_id /\ a.start_time = b.start_time
                                                     /\ a.end_time = b.end_time)
      ]_vars

(***************************************************************************)
(* Availability as the complement of the busy windows.                     *)
(***************************************************************************)
\* The instants of [startDate, endDate) that no busy window of the resource
\* covers.
FreeInstants(resourceId, startDate, endDate) ==
    {t \in startDate .. endDate - 1 :
        ~\E b \in BusySlots(resourceId, startDate, endDate) : b.start <= t /\ t < b.end}

\* The instants the returned intervals cover.
ReturnedInstants(slots) ==
    UNION {slots[k].start_time .. slots[k].end_time - 1 : k \in DOMAIN slots}

\* C31: for every valid range, the intervals availability returns are
\* ordered, pairwise disjoint, each non-empty and inside
\* [rangeStart, rangeEnd), and together they are exactly the part of the
\* range that no busy occurrence of the resource covers (a non-exception
\* stored instance or a non-cancelled occurrence of an unbounded series that
\* overlaps the range, also one that starts before rangeStart, and busy
\* windows that overlap one another).
C31_AvailabilityIsComplement ==
    [][(availability.kind = "none" /\ availability'.kind = "ok")
         => LET startDate == availability'.start_date
                endDate == availability'.end_date
                slots == availability'.available_slots
            IN  /\ \A k \in DOMAIN slots :
                      /\ startDate <= slots[k].start_time
                      /\ slots[k].start_time < slots[k].end_time
                      /\ slots[k].end_time <= endDate
                /\ \A k \in 1 .. Len(slots) - 1 :
                      slots[k].end_time <= slots[k + 1].start_time
                /\ ReturnedInstants(slots)
                      = FreeInstants(availability'.resource_id, startDate, endDate)
      ]_vars

(***************************************************************************)
(* The slot search with a rule.                                            *)
(***************************************************************************)
\* The occurrences of the rule of the answered search, expanded from the
\* effective start max(fromTime, now).
SearchedOccurrences ==
    parseRRule(query'.recurrence_rule, Max(query'.start_time, now), now)

\* The places in occ of the occurrences whose window has no conflict.
FreePlaces(resourceId, occ, duration) ==
    {k \in DOMAIN occ : findConflictsForTimeRange(resourceId, occ[k], occ[k] + duration) = {}}

\* C32: with a rule (whose expansion succeeds), nextAvailableSlots returns,
\* in increasing start order, exactly the first min(maxSlots, number of
\* conflict-free occurrences) occurrences of the rule expanded from the
\* effective start whose window [o, o + duration) has an empty conflict
\* check; a conflicting occurrence is skipped and never returned, and when
\* every occurrence conflicts the result is empty.
C32_FirstFreeOccurrences ==
    [][(SlotsAnswered /\ query'.recurrence_rule.present /\ SearchedOccurrences.ok)
         => LET duration == query'.end_time - query'.start_time
                occ == SearchedOccurrences.occurrences
                free == FreePlaces(query'.resource_id, occ, duration)
                slots == query'.slots
            IN  /\ Len(slots) = Min(query'.maxSlots, Cardinality(free))
                /\ \A k \in DOMAIN slots :
                      \E j \in free :
                          /\ Cardinality({i \in free : i <= j}) = k
                          /\ slots[k] = [start |-> occ[j], end |-> occ[j] + duration]
                /\ \A k \in 1 .. Len(slots) - 1 : slots[k].start < slots[k + 1].start
                /\ free = {} => slots = << >>
      ]_vars

\* C32 witness: a search with a rule skipped a first occurrence that
\* conflicts with a stored booking and returned later occurrences.
C32_Witness ==
    /\ SlotsReturned
    /\ query.recurrence_rule.present
    /\ query.calledAt = now
    /\ query.slots # << >>
    /\ LET occ == parseRRule(query.recurrence_rule,
                             Max(query.start_time, query.calledAt), now).occurrences
       IN  /\ Len(occ) > 1
           /\ findConflictsForTimeRange(query.resource_id, occ[1],
                                        occ[1] + (query.end_time - query.start_time)) # {}
           /\ query.slots[1].start > occ[1]

\* C33: when a rule is given and its expansion fails, nextAvailableSlots
\* does not propagate the error and returns what the search without a rule
\* returns for the same resource, fromTime, duration and maxSlots.
C33_FailedExpansionFallsBack ==
    [][(SlotsAnswered /\ query'.recurrence_rule.present /\ ~SearchedOccurrences.ok)
         => /\ query'.ok
            /\ query'.slots = findNextAvailableSlots(query'.resource_id, query'.start_time,
                                                     query'.end_time - query'.start_time,
                                                     NoRule, query'.maxSlots)
      ]_vars

(***************************************************************************)
(* What a cancellation leaves alone.                                       *)
(***************************************************************************)
\* No two non-exception rows of one resource overlap.
NonOverlapping(rows) ==
    \A a, b \in rows :
        (a # b /\ ~a.is_exception /\ ~b.is_exception /\ a.resource_id = b.resource_id)
            => ~isOverlapping(a.start_time, a.end_time, b.start_time, b.end_time)

\* C34: cancelOccurrence changes at most one instance (one flag flip or one
\* added exception row) and nothing else: it never changes a series, never
\* changes another non-exception instance or adds one, never touches
\* instances of other series, never fails because of a conflict, and so
\* keeps the non-exception instances free of overlap.
C34_CancelChangesOneInstance ==
    [][Cancels
         => /\ series' = series
            /\ << pc, dto, txSeries, txInstances, error, result >>'
                  = << pc, dto, txSeries, txInstances, error, result >>
            /\ \/ instances' = instances
               \/ \E i \in instances :
                     /\ ~i.is_exception
                     /\ i.series_id = cancelResult'.seriesId
                     /\ instances' = (instances \ {i}) \cup {[i EXCEPT !.is_exception = TRUE]}
               \/ \E e \in instances' \ instances :
                     /\ e.is_exception
                     /\ e.series_id = cancelResult'.seriesId
                     /\ instances' = instances \cup {e}
            /\ cancelResult'.kind \in {"cancelled", "Recurring booking series not found"}
            /\ cancelResult'.kind = "cancelled" <=> instances' # instances
            /\ NonOverlapping(instances) => NonOverlapping(instances')
      ]_vars

\* C34 witness: the store holds the bookings of two series on one resource,
\* and a cancellation flagged an instance of one of them or added an
\* exception row for it, leaving the rows of the other series alone.
C34_Witness ==
    /\ cancelResult.kind = "cancelled"
    /\ cancelResult.instance \in instances
    /\ \E s \in series :
          /\ s.id # cancelResult.seriesId
          /\ s.resource_id = cancelResult.instance.resource_id
          /\ \E i \in instances : i.series_id = s.id /\ ~i.is_exception

(***************************************************************************)
(* Repeated cancellation of one occurrence.                                *)
(***************************************************************************)
\* The exception rows of a series on the calendar day of date.
ExceptionsOn(seriesId, date) ==
    {i \in instances : /\ i.series_id = seriesId
                       /\ i.is_exception
                       /\ SameDay(i.start_time, date)}

\* C35: cancellation is idempotent per occurrence: after any number of
\* cancelOccurrence calls for the same series and the same calendar day the
\* store holds at most one instance with is_exception = true for that series
\* and day; only the first call creates or flips a row.
C35_OneExceptionPerDay ==
    \A i \in instances : Cardinality(ExceptionsOn(i.series_id, i.start_time)) <= 1

(***************************************************************************)
(* Booking the window of a cancelled occurrence.                           *)
(***************************************************************************)
\* The last cancellation succeeded for an occurrence of its series, and its
\* exception row is stored.
OccurrenceCancelled ==
    /\ cancelResult.kind = "cancelled"
    /\ cancelResult.instance \in instances
    /\ \E s \in series :
          /\ s.id = cancelResult.seriesId
          /\ cancelResult.instance.start_time \in OccurrencesOn(s, cancelResult.instanceDate)

\* Request r asks for one booking of exactly the window of the cancelled
\* occurrence, on its resource.
AsksCancelledWindow(r) ==
    /\ ~dto[r].recurrence_rule.present
    /\ dto[r].resource_id = cancelResult.instance.resource_id
    /\ dto[r].start_time = cancelResult.instance.start_time
    /\ dto[r].end_time = cancelResult.instance.end_time

\* The window of request r overlaps no other booking of the resource: no
\* stored non-exception instance, no row of an open transaction and no
\* non-cancelled occurrence of an unbounded series.
OverlapsNothingElse(r) ==
    /\ \A i \in instances \cup UNION {txInstances[q] : q \in Requests \ {r}} :
          (i.resource_id = dto[r].resource_id /\ ~i.is_exception)
          => ~isOverlapping(dto[r].start_time, dto[r].end_time, i.start_time, i.end_time)
    /\ BusySlots(dto[r].resource_id, dto[r].start_time, dto[r].end_time) = {}

\* C36: a cancelled occurrence frees its window: after cancelOccurrence
\* succeeded for an occurrence (materialized or virtual) of a series, a valid
\* createBooking request on the same resource for exactly that occurrence's
\* window, overlapping nothing else, is accepted by the store, and what the
\* store accepted is committed with a success response.
C36_CancelledWindowCanBeBooked ==
    [][\A r \in Requests :
          /\ (pc[r] = "seriesSaved" /\ pc'[r] # "seriesSaved"
                /\ OccurrenceCancelled /\ AsksCancelledWindow(r) /\ OverlapsNothingElse(r))
               => pc'[r] = "saved"
          /\ (pc[r] = "saved" /\ pc'[r] # "saved")
               => /\ pc'[r] = "done"
                  /\ result'[r].kind = "success"
                  /\ txInstances[r] \subseteq instances'
      ]_vars

(***************************************************************************)
(* Instances and their series.                                             *)
(***************************************************************************)
\* C37: in every reachable state, every stored instance (exception or not)
\* has a series_id that refers to a stored series, carries the resource_id
\* of that series and lasts as long as the window of the series; every
\* stored series has end_time > start_time.
C37_InstancesBelongToSeries ==
    /\ \A i \in instances :
          \E s \in series :
              /\ s.id = i.series_id
              /\ s.resource_id = i.resource_id
              /\ i.end_time - i.start_time = s.end_time - s.start_time
    /\ \A s \in series : s.end_time > s.start_time

\* C37 witness: the store holds a series with several materialized
\* instances next to an exception row that a cancellation added for a day
\* other than the day of its series' template.
C37_Witness ==
    /\ \E s \in series : Cardinality({i \in instances : i.series_id = s.id}) > 1
    /\ \E e \in instances : \E s \in series :
          /\ e.is_exception
          /\ e.id[2] = "exc"
          /\ s.id = e.series_id
          /\ ~SameDay(e.start_time, s.start_time)

(***************************************************************************)
(* Termination.                                                            *)
(***************************************************************************)
\* The iterations the search has made so far.
IterationsMade == (query.currentTime - Max(query.start_time, query.calledAt)) \div Hour

\* C38: every creation request that opens a transaction eventually reaches
\* Done; the transaction is then committed or rolled back, never left
\* open, and holds no row any more, also when a save or the commit throws;
\* and the search without a rule terminates, after at most the number of
\* hourly steps in 90 days.
C38_TransactionsAndSearchEnd ==
    /\ \A r \in Requests : InFlight(r) ~> (pc[r] = "done")
    /\ [](\A r \in Requests :
             pc[r] = "done" => txSeries[r] = {} /\ txInstances[r] = {})
    /\ [][\A r \in Requests :
              (InFlight(r) /\ pc'[r] = "done")
                 => \/ /\ series' = series \cup txSeries[r]
                       /\ instances' = instances \cup txInstances[r]
                       /\ result'[r].kind = "success"
                    \/ /\ series' = series
                       /\ instances' = instances
                       /\ result'[r].kind # "success"
         ]_vars
    /\ (query.fn = "searching") ~> (query.fn = "findNextAvailableSlots")
    /\ [](query.fn = "searching" => IterationsMade <= SearchDays * HoursPerDay)

\* C38 witness: a request whose commit or save threw is done with its
\* transaction rolled back, next to a committed one, and a search on the
\* resource that is busy all the time has stopped at the horizon without a
\* slot.
C38_Witness ==
    /\ \E r \in Requests : /\ pc[r] = "done"
                           /\ error[r] = "TransientStorageFailure"
                           /\ txSeries[r] = {}
                           /\ txInstances[r] = {}
    /\ \E r \in Requests : pc[r] = "done" /\ result[r].kind = "success"
    /\ query.fn = "findNextAvailableSlots"
    /\ query.maxSlots > 0
    /\ query.start_time < query.calledAt + SearchDays * Day
    /\ query.slots = << >>

(***************************************************************************)
(* The three tests for an unbounded rule.                                  *)
(***************************************************************************)
\* The instances createBookingSeries stored for a series.
MaterializedFor(s) == {i \in instances : i.series_id = s.id /\ i.id[2] = "occ"}

\* C39: the three tests for an unbounded rule agree for every stored
\* series: the store filter used by conflict detection and availability
\* (rule text contains neither COUNT nor UNTIL), isInfiniteRecurrence and
\* the two-year-horizon branch of parseRRule select the same rules; hence a
\* series is expanded virtually if and only if createBookingSeries
\* materialized no instances for it, and no occurrence is counted both as a
\* materialized instance and as a virtual one.
C39_UnboundedTestsAgree ==
    \A s \in series :
        LET expanded == s \in infiniteSeries(s.resource_id)
        IN  /\ s.recurrence_rule.present
               => /\ expanded <=> isInfiniteRecurrence(s.recurrence_rule)
                  /\ isInfiniteRecurrence(s.recurrence_rule)
                        <=> usesTwoYearHorizon(s.recurrence_rule)
            /\ expanded <=> MaterializedFor(s) = {}
            /\ expanded
               => \A o \in Range(parseRRule(s.recurrence_rule, s.start_time, now).occurrences) :
                     \A i \in MaterializedFor(s) : i.start_time # o
====
